---- MODULE Spec2Model ----
(***************************************************************************)
(* Timed scene composition pipeline of videogen.                           *)
(*                                                                         *)
(*   - the scene-timing aligner  groupWordsIntoScenes (app/lib/assemblyai) *)
(*   - the generate route        POST /api/video/generate                  *)
(*                                                                         *)
(* Arithmetic.  The aligner computes with JavaScript numbers.  Word times  *)
(* are whole milliseconds; the two divisions (total / sceneCount and       *)
(* remainingTime / remainingScenes) are modelled as exact rational         *)
(* arithmetic: every scene time is held multiplied by Scale, a common      *)
(* multiple of every possible divisor, so that each division is exact.     *)
(* IEEE-754 rounding of the quotients is not modelled.                     *)
(***************************************************************************)
EXTENDS Integers, Sequences, FiniteSets, TLC

\* ------------------------------------------------------------------ bounds
MaxWords == 3
MaxPrompts == 4
MaxInvocations == 2
ProjectPrompts == 2

\* Instants (ms) at which a word of the transcript may start or end.
Instants == {0, 300, 500, 800, 1000, 1200, 1500}

\* audio_duration values, in tenths of a second (0.5 s, 1.0 s, 1.2 s, 1.5 s).
AudioDurations == {5, 10, 12, 15}

PromptPool == <<"a", "b", "c", "d", "e", "f">>

RECURSIVE Factorial(_)
Factorial(n) == IF n <= 1 THEN 1 ELSE n * Factorial(n - 1)

\* Scene times are held in units of 1/Scale ms.
Scale == Factorial(MaxPrompts)

VARIABLES
    \* ---- groupWordsIntoScenes: arguments and locals
    words,              \* WordTimestamp[] : sequence of [start, end] (ms)
    imagePrompts,       \* string[]
    audioDuration,      \* seconds, held in tenths of a second
    scenes,             \* result under construction: [start, end, imagePrompt]
    currentSceneStart,  \* ms
    currentWordIndex,   \* 0-based, as in the source
    currentSceneIndex,  \* 0-based, as in the source
    alignPc,            \* "off" | "start" | "loop" | "done" ("error": thrown)
    \* ---- database rows
    project,            \* the Project row the requests address
    user,               \* the owning User row: videoUrl, voice_id
    \* ---- POST /api/video/generate, one record of locals per request slot
    pc,                 \* position of each request in the handler
    run,                \* locals of each request
    invocations,        \* number of requests received so far
    \* ---- filter-graph builders: arguments and locals
    builder,            \* "off" | "simplified" | "kenburns"
    imagePaths,         \* string[]
    timedScenes,        \* TimedScene[]
    filterComplex,      \* the graph built so far: a sequence of filter chains
    segments,           \* labels pushed by the segment loop
    graphIndex,         \* index of the running forEach (0-based)
    graphPc,            \* "off" | "scale" | "segment" | "concat" | "map"
                        \* | "done" | "rejected" | "listed"
    totalDurationMs,    \* createBasicSlideshow: totalDuration (ms)
    fileContent,        \* createBasicSlideshow: entries of the concat list
    \* ---- getTranscriptWithTimestamps and the remote transcription job
    apiKey,             \* process.env.ASSEMBLYAI_API_KEY is set
    pollPc,             \* "off" | "start" | "submit" | "poll" | "wait"
                        \* | "returned" | "thrown"
    job,                \* the remote job: [status, transcript]
    polled,             \* the latest polls: [status, first, delay]
    result,             \* the value returned
    waited,             \* seconds since the running timer was armed
    \* ---- the media processes of one generate run
    procPc,             \* position of the handler between its awaits
    child,              \* each ChildProcess: [state, code]
    promise,            \* the promise of each media function
    slideshowSuccessFlag, \* the handler's local slideshowSuccess
    \* ---- POST /api/video/merge and mergePortraitVideo
    mergePc,            \* position of the handler between its awaits
    mergeRun,           \* the request and the handler's locals
    mergeChild,         \* ffprobe, ffmpeg, lastResort: [state, code]
    probeData,          \* what ffprobe wrote to stdout
    mergePromise        \* the promise of mergePortraitVideo

alignVars == <<words, imagePrompts, audioDuration, scenes, currentSceneStart,
               currentWordIndex, currentSceneIndex, alignPc>>

genVars == <<project, user, pc, run, invocations>>

graphVars == <<builder, imagePaths, timedScenes, filterComplex, segments,
               graphIndex, graphPc, totalDurationMs, fileContent>>

pollVars == <<apiKey, pollPc, job, polled, result, waited>>

procVars == <<procPc, child, promise, slideshowSuccessFlag>>

mergeVars == <<mergePc, mergeRun, mergeChild, probeData, mergePromise>>

vars == <<alignVars, genVars, graphVars, pollVars, procVars, mergeVars>>

\* No transcription is running.
PollOff ==
    /\ apiKey = FALSE /\ pollPc = "off"
    /\ job = [status |-> "none", transcript |-> <<>>]
    /\ polled = <<>> /\ result = <<>> /\ waited = 0

\* No media process has been started.
ProcOff ==
    /\ procPc = "off" /\ child = <<>> /\ promise = <<>>
    /\ slideshowSuccessFlag = FALSE

\* No filter-graph builder is running.
GraphOff ==
    /\ builder = "off" /\ imagePaths = <<>> /\ timedScenes = <<>>
    /\ filterComplex = <<>> /\ segments = <<>> /\ graphIndex = 0
    /\ graphPc = "off"
    /\ totalDurationMs = 0 /\ fileContent = <<>>

\* No request to the merge route.
MergeOff ==
    /\ mergePc = "off" /\ mergeRun = <<>> /\ mergeChild = <<>>
    /\ probeData = <<>> /\ mergePromise = "none"

\* Neither a filter-graph builder nor a transcription nor a media process
\* nor a merge request.
OthersOff == GraphOff /\ PollOff /\ ProcOff /\ MergeOff

\* ------------------------------------------------------- input generation
WordTimestamp(s, e) == [start |-> s, end |-> e]

\* Word lists as the transcription service delivers them: ordered by start
\* time, non-overlapping, each word of positive length.
RECURSIVE WordListsFrom(_, _)
WordListsFrom(n, from) ==
    IF n = 0 THEN {<<>>}
    ELSE UNION { UNION { { <<WordTimestamp(s, e)>> \o rest :
                              rest \in WordListsFrom(n - 1, e) } :
                         e \in {x \in Instants : x > s} } :
                 s \in {x \in Instants : x >= from} }

AllWordLists == UNION { WordListsFrom(n, 0) : n \in 0..MaxWords }

Prompts(n) == SubSeq(PromptPool, 1, n)

\* --------------------------------------------------- groupWordsIntoScenes
\* const totalDuration = audioDuration * 1000   (audioDuration in tenths of s)
TotalDuration(d) == (d * 1000) \div 10

\* const targetDurationPerScene = totalDuration / sceneCount     (x Scale)
TargetDurationPerScene(total, sceneCount) == (total * Scale) \div sceneCount

\* Faulty variant of BestMatchIndex: a word that starts exactly at
\* targetEndTime is taken into the scene (<= for <).
RECURSIVE BestMatchIndex_Inclusive(_, _, _)
BestMatchIndex_Inclusive(ws, bestMatchIndex, targetEndTime) ==
    IF bestMatchIndex + 1 < Len(ws)
       /\ ws[bestMatchIndex + 2].start * Scale <= targetEndTime
    THEN BestMatchIndex_Inclusive(ws, bestMatchIndex + 1, targetEndTime)
    ELSE bestMatchIndex

\* Inner while loop: the last word index (0-based) reached from bestMatchIndex
\* while the next word starts before targetEndTime (x Scale).
RECURSIVE BestMatchIndex(_, _, _)
BestMatchIndex(ws, bestMatchIndex, targetEndTime) ==
    IF bestMatchIndex + 1 < Len(ws)
       /\ ws[bestMatchIndex + 2].start * Scale < targetEndTime
    THEN BestMatchIndex(ws, bestMatchIndex + 1, targetEndTime)
    ELSE bestMatchIndex

\* Faulty variant of LoopScene: the scene ends where its last word starts.
LoopScene_EndAtWordStart(ws, ps, sceneStart, sceneIndex, bestMatchIndex) ==
    [start       |-> sceneStart * Scale,
     end         |-> ws[bestMatchIndex + 1].start * Scale,
     imagePrompt |-> ps[sceneIndex + 1]]

\* The scene pushed by one iteration of the outer loop.
LoopScene(ws, ps, sceneStart, sceneIndex, bestMatchIndex) ==
    [start       |-> sceneStart * Scale,
     end         |-> ws[bestMatchIndex + 1].end * Scale,
     imagePrompt |-> ps[sceneIndex + 1]]

\* Guard of the outer while loop.
LoopCond(ws, ps, st) ==
    st.currentWordIndex < Len(ws) /\ st.currentSceneIndex < Len(ps)

\* Faulty variant of LoopBody: the word cursor stays on the last word of the
\* scene.
LoopBody_CursorOnLastWord(ws, ps, total, st) ==
    LET targetEndTime == st.currentSceneStart * Scale
                           + TargetDurationPerScene(total, Len(ps))
        best == BestMatchIndex(ws, st.currentWordIndex, targetEndTime)
    IN  [scenes            |-> Append(st.scenes,
                                 LoopScene(ws, ps, st.currentSceneStart,
                                           st.currentSceneIndex, best)),
         currentSceneStart |-> ws[best + 1].end,
         currentWordIndex  |-> best,
         currentSceneIndex |-> st.currentSceneIndex + 1]

\* One iteration of the outer while loop on the locals st.
LoopBody(ws, ps, total, st) ==
    LET targetEndTime == st.currentSceneStart * Scale
                           + TargetDurationPerScene(total, Len(ps))
        best == BestMatchIndex(ws, st.currentWordIndex, targetEndTime)
    IN  [scenes            |-> Append(st.scenes,
                                 LoopScene(ws, ps, st.currentSceneStart,
                                           st.currentSceneIndex, best)),
         currentSceneStart |-> ws[best + 1].end,
         currentWordIndex  |-> best + 1,
         currentSceneIndex |-> st.currentSceneIndex + 1]

\* Guard of the tail block: remainingTime > 0 && remainingScenes > 0.
TailCond(remainingTime, remainingScenes) ==
    remainingTime > 0 /\ remainingScenes > 0

\* Faulty variant of TailScene: the offset lastEndTime is left out of the start.
TailScene_NoOffset(ps, lastEndTime, durationPerRemainingScene, sceneIndex, i) ==
    LET sceneStart == i * durationPerRemainingScene
    IN  [start       |-> sceneStart,
         end         |-> sceneStart + durationPerRemainingScene,
         imagePrompt |-> ps[sceneIndex + i + 1]]

\* The i-th (0-based) evenly divided tail scene.
TailScene(ps, lastEndTime, durationPerRemainingScene, sceneIndex, i) ==
    LET sceneStart == lastEndTime + i * durationPerRemainingScene
    IN  [start       |-> sceneStart,
         end         |-> sceneStart + durationPerRemainingScene,
         imagePrompt |-> ps[sceneIndex + i + 1]]

\* The block after the loop: the scenes returned.
TailBlock(ps, total, st) ==
    IF st.currentSceneIndex < Len(ps)
    THEN LET lastEndTime == IF Len(st.scenes) > 0
                            THEN st.scenes[Len(st.scenes)].end ELSE 0
             remainingTime   == total * Scale - lastEndTime
             remainingScenes == Len(ps) - st.currentSceneIndex
         IN  IF TailCond(remainingTime, remainingScenes)
             THEN st.scenes \o
                  [i \in 1..remainingScenes |->
                     TailScene(ps, lastEndTime,
                               remainingTime \div remainingScenes,
                               st.currentSceneIndex, i - 1)]
             ELSE st.scenes
    ELSE st.scenes

\* Locals at loop entry.
LoopEntry(ws) ==
    [scenes |-> <<>>, currentSceneStart |-> ws[1].start,
     currentWordIndex |-> 0, currentSceneIndex |-> 0]

RECURSIVE RunLoop(_, _, _, _)
RunLoop(ws, ps, total, st) ==
    IF LoopCond(ws, ps, st) THEN RunLoop(ws, ps, total, LoopBody(ws, ps, total, st))
    ELSE st

\* The whole function, as the generate route calls it.
groupWordsIntoScenes(ws, ps, d) ==
    IF Len(ws) = 0 \/ Len(ps) = 0 THEN <<>>
    ELSE TailBlock(ps, TotalDuration(d),
                   RunLoop(ws, ps, TotalDuration(d), LoopEntry(ws)))

\* ---- the aligner run step by step
Locals == [scenes |-> scenes, currentSceneStart |-> currentSceneStart,
           currentWordIndex |-> currentWordIndex,
           currentSceneIndex |-> currentSceneIndex]

SetLocals(st) ==
    /\ scenes' = st.scenes
    /\ currentSceneStart' = st.currentSceneStart
    /\ currentWordIndex' = st.currentWordIndex
    /\ currentSceneIndex' = st.currentSceneIndex

InitAlign ==
    /\ words \in AllWordLists
    /\ imagePrompts \in {Prompts(n) : n \in 0..MaxPrompts}
    /\ audioDuration \in AudioDurations
    /\ scenes = <<>>
    /\ currentSceneStart = 0
    /\ currentWordIndex = 0
    /\ currentSceneIndex = 0
    /\ alignPc = "start"
    /\ project = [status |-> "DRAFT", userId |-> "owner",
                  imagePrompts |-> <<>>, generatedImages |-> <<>>,
                  slideshowUrl |-> "null", outputUrl |-> "null",
                  finalVideoUrl |-> "null"]
    /\ user = [videoUrl |-> FALSE, voice_id |-> FALSE]
    /\ pc = [r \in {1, 2} |-> "idle"]
    /\ run = [r \in {1, 2} |-> <<>>]
    /\ invocations = 0
    /\ OthersOff

\* Faulty variant of AlignStart: the empty-input check is missing, and reading
\* words[0].start of an empty word list throws a TypeError.
AlignStart_EmptyCheckMissing ==
    /\ alignPc = "start"
    /\ IF Len(words) = 0
       THEN /\ alignPc' = "error"
            /\ UNCHANGED <<scenes, currentSceneStart, currentWordIndex,
                           currentSceneIndex>>
       ELSE /\ alignPc' = "loop"
            /\ SetLocals(LoopEntry(words))
    /\ UNCHANGED <<words, imagePrompts, audioDuration, genVars, graphVars,
                   pollVars, procVars, mergeVars>>

\* Entry: the empty-input return, or the initialisation of the locals.
AlignStart ==
    /\ alignPc = "start"
    /\ IF Len(words) = 0 \/ Len(imagePrompts) = 0
       THEN /\ alignPc' = "done"
            /\ UNCHANGED <<scenes, currentSceneStart, currentWordIndex,
                           currentSceneIndex>>
       ELSE /\ alignPc' = "loop"
            /\ SetLocals(LoopEntry(words))
    /\ UNCHANGED <<words, imagePrompts, audioDuration, genVars, graphVars,
                   pollVars, procVars, mergeVars>>

\* One iteration of the outer loop.
AlignLoop ==
    /\ alignPc = "loop"
    /\ LoopCond(words, imagePrompts, Locals)
    /\ SetLocals(LoopBody(words, imagePrompts, TotalDuration(audioDuration), Locals))
    /\ UNCHANGED <<words, imagePrompts, audioDuration, alignPc, genVars, graphVars,
                   pollVars, procVars, mergeVars>>

\* Loop exit, the tail block and the return.
AlignTail ==
    /\ alignPc = "loop"
    /\ ~LoopCond(words, imagePrompts, Locals)
    /\ scenes' = TailBlock(imagePrompts, TotalDuration(audioDuration), Locals)
    /\ alignPc' = "done"
    /\ UNCHANGED <<words, imagePrompts, audioDuration, currentSceneStart,
                   currentWordIndex, currentSceneIndex, genVars, graphVars,
                   pollVars, procVars, mergeVars>>


\* ======================================================================
\* POST /api/video/generate
\* ======================================================================
NULL == "null"

\* Request slots.  Each slot serves one request at a time and is reused.
Slots == {1, 2}

\* A tag per invocation: every URL a run obtains carries the tag of the run.
RunTag == <<"run1", "run2", "run3", "run4">>

ImageFiles == <<"image1", "image2", "image3", "image4", "image5", "image6">>

\* Transcripts the transcription service may return: [words, audio_duration].
Transcripts ==
    { [words |-> <<WordTimestamp(0, 500), WordTimestamp(800, 1200)>>,
       audio_duration |-> 12],
      [words |-> <<WordTimestamp(0, 500)>>, audio_duration |-> 5] }

NoTranscript == [words |-> <<>>, audio_duration |-> 0]

Range(f) == {f[i] : i \in DOMAIN f}

\* URL of the image generated from a prompt.
ImageUrl(prompt) == <<"img", prompt>>

\* results.filter(url => url !== null): the URLs of the prompts whose
\* generation succeeded (indices in ok), in prompt order.
RECURSIVE FilterResults(_, _, _)
FilterResults(prompts, ok, i) ==
    IF i > Len(prompts) THEN <<>>
    ELSE (IF i \in ok THEN <<ImageUrl(prompts[i])>> ELSE <<>>)
         \o FilterResults(prompts, ok, i + 1)

generateImagesFromPrompts(prompts, ok) == FilterResults(prompts, ok, 1)

\* Lines 278-282: attach generatedImages[i] to timedScenes[i] by position.
AttachImageUrls(ts, generatedImages) ==
    [i \in 1..Len(ts) |->
        [start |-> ts[i].start, end |-> ts[i].end,
         imagePrompt |-> ts[i].imagePrompt,
         imageUrl |-> IF i <= Len(generatedImages)
                      THEN generatedImages[i] ELSE <<>>]]

\* cleanupTempFiles: unlink every tracked path that exists.
cleanupTempFiles(files, tempFiles) == files \ Range(tempFiles)

FreshRun(inv, u, pid) ==
    [inv |-> inv, user |-> u, projectId |-> pid,
     route |-> "generate",        \* the route the request addresses
     project |-> <<>>,            \* result of findUnique (0 or 1 rows)
     generatedImages |-> <<>>, audioUrl |-> NULL,
     transcript |-> NoTranscript, timedScenes |-> <<>>,
     imagePaths |-> <<>>, audioPath |-> NULL,
     tempFiles |-> <<>>,          \* tracked paths
     files |-> {},                \* scratch files of this run now on disk
     slideshowSuccess |-> FALSE,
     enhancedCall |-> <<>>, basicCall |-> <<>>,   \* arguments of each tier call
     lipsyncUrl |-> NULL, lipsyncPath |-> NULL,
     slideshowUrl |-> NULL, splitScreenUrl |-> NULL,
     updateData |-> <<>>,         \* data of the final update (0 or 1 records)
     log |-> <<>>,                \* the steps performed, in order
     response |-> NULL,           \* HTTP status of the response
     atReturn |-> <<>>]           \* the Project row when the response was sent

Init ==
    /\ words = <<>> /\ imagePrompts = <<>> /\ audioDuration = 0
    /\ scenes = <<>> /\ currentSceneStart = 0 /\ currentWordIndex = 0
    /\ currentSceneIndex = 0 /\ alignPc = "off"
    /\ \E n \in {0, ProjectPrompts} :
         project = [status |-> "DRAFT", userId |-> "owner",
                    imagePrompts |-> Prompts(n), generatedImages |-> <<>>,
                    slideshowUrl |-> NULL, outputUrl |-> NULL,
                    finalVideoUrl |-> NULL]
    /\ user \in [videoUrl : BOOLEAN, voice_id : BOOLEAN]
    /\ pc = [r \in Slots |-> "idle"]
    /\ run = [r \in Slots |-> FreshRun(0, "none", "")]
    /\ invocations = 0
    /\ OthersOff

\* ---- building blocks
Log(r, event) == Append(run[r].log, event)

Goto(r, label) == pc' = [pc EXCEPT ![r] = label]

\* An exception reaching the outer catch block.
Throw(r, event) ==
    /\ run' = [run EXCEPT ![r].log = Append(@, event)]
    /\ Goto(r, "catch")
    /\ UNCHANGED project

\* return NextResponse.json(..., {status: code}) of an early return.
Return(r, code) ==
    /\ run' = [run EXCEPT ![r].log = Append(@, "return:" \o code),
                          ![r].response = code,
                          ![r].atReturn = <<project'>>]
    /\ Goto(r, "done")

\* ---- the handler, one action per awaited step
\* Lines 178-202: session check and request body.
GenRequest(r) ==
    /\ pc[r] \in {"idle", "done"}
    /\ invocations < MaxInvocations
    /\ invocations' = invocations + 1
    /\ \E u \in {"owner", "other", "none"}, pid \in {"p1", "p2", ""} :
         LET fresh == FreshRun(invocations + 1, u, pid)
         IN  IF u = "none"
             THEN /\ run' = [run EXCEPT ![r] =
                        [fresh EXCEPT !.log = <<"return:401">>, !.response = "401",
                                      !.atReturn = <<project>>]]
                  /\ Goto(r, "done")
             ELSE IF pid = ""
             THEN /\ run' = [run EXCEPT ![r] =
                        [fresh EXCEPT !.log = <<"return:400">>, !.response = "400",
                                      !.atReturn = <<project>>]]
                  /\ Goto(r, "done")
             ELSE /\ run' = [run EXCEPT ![r] = fresh]
                  /\ Goto(r, "fetch")
    /\ UNCHANGED <<project, user, alignVars, graphVars,
                   pollVars, procVars, mergeVars>>

\* Lines 204-226: findUnique, not-found and ownership checks.
GenFetch(r) ==
    /\ pc[r] = "fetch"
    /\ IF run[r].projectId # "p1"
       THEN /\ UNCHANGED project /\ Return(r, "404")
       ELSE IF project.userId # run[r].user
       THEN /\ UNCHANGED project /\ Return(r, "403")
       ELSE /\ run' = [run EXCEPT ![r].project = <<project>>]
            /\ Goto(r, "setProcessing")
            /\ UNCHANGED project
    /\ UNCHANGED <<user, invocations, alignVars, graphVars,
                   pollVars, procVars, mergeVars>>

\* Lines 237-240: the image-prompt check after the status update.
MissingPrompts(r) ==
    /\ run[r].project[1].imagePrompts = <<>>

\* What the handler does when the project has no image prompts.
OnMissingPrompts(r) ==
    /\ run' = [run EXCEPT ![r].log = Log(r, "update:PROCESSING") \o <<"return:400">>,
                          ![r].response = "400",
                          ![r].atReturn = <<project'>>]
    /\ Goto(r, "done")

\* Faulty variant of GenSetProcessing: the images are generated on every run,
\* whether the project holds generated images or not.
GenSetProcessing_AlwaysGenerate(r) ==
    /\ pc[r] = "setProcessing"
    /\ project' = [project EXCEPT !.status = "PROCESSING"]
    /\ IF MissingPrompts(r)
       THEN OnMissingPrompts(r)
       ELSE /\ run' = [run EXCEPT ![r].log = Log(r, "update:PROCESSING"),
                       ![r].generatedImages = run[r].project[1].generatedImages]
            /\ Goto(r, "images")
    /\ UNCHANGED <<user, invocations, alignVars, graphVars,
                   pollVars, procVars, mergeVars>>

\* Lines 228-244: status := PROCESSING, prompt check, choice of next step.
GenSetProcessing(r) ==
    /\ pc[r] = "setProcessing"
    /\ project' = [project EXCEPT !.status = "PROCESSING"]
    /\ IF MissingPrompts(r)
       THEN OnMissingPrompts(r)
       ELSE /\ run' = [run EXCEPT ![r].log = Log(r, "update:PROCESSING"),
                       ![r].generatedImages = run[r].project[1].generatedImages]
            /\ Goto(r, IF run[r].project[1].generatedImages = <<>>
                       THEN "images" ELSE "audio")
    /\ UNCHANGED <<user, invocations, alignVars, graphVars,
                   pollVars, procVars, mergeVars>>

\* Lines 245-254: generate the images and save them on the project.
GenImages(r) ==
    /\ pc[r] = "images"
    /\ \E ok \in SUBSET (1..Len(run[r].project[1].imagePrompts)) :
         LET imgs == generateImagesFromPrompts(run[r].project[1].imagePrompts, ok)
         IN  /\ run' = [run EXCEPT ![r].generatedImages = imgs,
                          ![r].log = Log(r, "generateImages") \o <<"update:generatedImages">>]
             /\ project' = [project EXCEPT !.generatedImages = imgs]
    /\ Goto(r, "audio")
    /\ UNCHANGED <<user, invocations, alignVars, graphVars,
                   pollVars, procVars, mergeVars>>

\* Faulty variant of GenAudio: the null check of lines 261-263 is missing and
\* the run goes on to the transcription with no audio URL.
GenAudio_NoNullCheck(r) ==
    /\ pc[r] = "audio"
    /\ \E outcome \in (IF user.voice_id THEN {"ok", "null"} ELSE {"null"}) :
         /\ run' = [run EXCEPT
               ![r].audioUrl = IF outcome = "ok" THEN RunTag[run[r].inv] ELSE NULL,
               ![r].log = Log(r, IF outcome = "ok" THEN "generateAudio:ok"
                                 ELSE "generateAudio:fail")]
         /\ Goto(r, "transcribe")
         /\ UNCHANGED project
    /\ UNCHANGED <<user, invocations, alignVars, graphVars,
                   pollVars, procVars, mergeVars>>

\* Lines 257-263 and generateAudio (505-579): null on any failure, among them
\* a user without voice_id.
GenAudio(r) ==
    /\ pc[r] = "audio"
    /\ \E outcome \in (IF user.voice_id THEN {"ok", "null"} ELSE {"null"}) :
         IF outcome = "ok"
         THEN /\ run' = [run EXCEPT ![r].audioUrl = RunTag[run[r].inv],
                                    ![r].log = Log(r, "generateAudio:ok")]
              /\ Goto(r, "transcribe")
              /\ UNCHANGED project
         ELSE Throw(r, "generateAudio:fail")
    /\ UNCHANGED <<user, invocations, alignVars, graphVars,
                   pollVars, procVars, mergeVars>>

\* Lines 265-282: transcription, alignment, image URLs by position.
GenTranscribe(r) ==
    /\ pc[r] = "transcribe"
    /\ \/ \E t \in Transcripts :
            /\ run' = [run EXCEPT
                  ![r].transcript = t,
                  ![r].timedScenes =
                      AttachImageUrls(
                          groupWordsIntoScenes(t.words,
                              run[r].project[1].imagePrompts, t.audio_duration),
                          run[r].generatedImages),
                  ![r].log = Log(r, "transcribe:ok")]
            /\ Goto(r, "downloadImages")
            /\ UNCHANGED project
       \/ Throw(r, "transcribe:fail")
    /\ UNCHANGED <<user, invocations, alignVars, graphVars,
                   pollVars, procVars, mergeVars>>

\* Lines 284-288: Promise.all over one download per generated image.  Every
\* download that succeeds writes its file; the paths are tracked only when
\* all of them succeeded.
GenDownloadImages(r) ==
    /\ pc[r] = "downloadImages"
    /\ LET n == Len(run[r].generatedImages)
       IN  \E ok \in SUBSET (1..n) :
             LET written == {ImageFiles[i] : i \in ok}
             IN  IF ok = 1..n
                 THEN /\ run' = [run EXCEPT
                            ![r].imagePaths = [i \in 1..n |-> ImageFiles[i]],
                            ![r].tempFiles = @ \o [i \in 1..n |-> ImageFiles[i]],
                            ![r].files = @ \cup written,
                            ![r].log = Log(r, "downloadImages:ok")]
                      /\ Goto(r, "downloadAudio")
                      /\ UNCHANGED project
                 ELSE /\ run' = [run EXCEPT
                            ![r].files = @ \cup written,
                            ![r].log = Log(r, "downloadImages:fail")]
                      /\ Goto(r, "catch")
                      /\ UNCHANGED project
    /\ UNCHANGED <<user, invocations, alignVars, graphVars,
                   pollVars, procVars, mergeVars>>

\* Faulty variant of GenDownloadAudio: a failed download is swallowed and the
\* run goes on to the slideshow with no audio file.
GenDownloadAudio_IgnoreFailure(r) ==
    /\ pc[r] = "downloadAudio"
    /\ \/ /\ run' = [run EXCEPT
                ![r].audioPath = "audio",
                ![r].tempFiles = @ \o <<"audio", "slideshow">>,
                ![r].files = @ \cup {"audio"},
                ![r].log = Log(r, "downloadAudio:ok")]
          /\ Goto(r, "enhanced")
          /\ UNCHANGED project
       \/ /\ run' = [run EXCEPT
                ![r].tempFiles = @ \o <<"slideshow">>,
                ![r].log = Log(r, "downloadAudio:fail")]
          /\ Goto(r, "enhanced")
          /\ UNCHANGED project
    /\ UNCHANGED <<user, invocations, alignVars, graphVars,
                   pollVars, procVars, mergeVars>>

\* Lines 290-298: audio download; the slideshow output path is tracked.
GenDownloadAudio(r) ==
    /\ pc[r] = "downloadAudio"
    /\ \/ /\ run' = [run EXCEPT
                ![r].audioPath = "audio",
                ![r].tempFiles = @ \o <<"audio", "slideshow">>,
                ![r].files = @ \cup {"audio"},
                ![r].log = Log(r, "downloadAudio:ok")]
          /\ Goto(r, "enhanced")
          /\ UNCHANGED project
       \/ Throw(r, "downloadAudio:fail")
    /\ UNCHANGED <<user, invocations, alignVars, graphVars,
                   pollVars, procVars, mergeVars>>

\* Lines 304-310: the arguments of createSimplifiedSlideshow.
EnhancedArgs(r) ==
    [imagePaths |-> run[r].imagePaths, audioPath |-> run[r].audioPath,
     outputPath |-> "slideshow", timedScenes |-> run[r].timedScenes,
     totalDuration |-> TotalDuration(run[r].transcript.audio_duration)]

\* Faulty variant of BasicArgs: the duration is passed in seconds, not milliseconds.
BasicArgs_Seconds(r) ==
    [imagePaths |-> run[r].imagePaths, audioPath |-> run[r].audioPath,
     outputPath |-> "slideshow", timedScenes |-> run[r].timedScenes,
     totalDuration |-> run[r].transcript.audio_duration]

\* Lines 319-325: the arguments of createBasicSlideshow.
BasicArgs(r) ==
    [imagePaths |-> run[r].imagePaths, audioPath |-> run[r].audioPath,
     outputPath |-> "slideshow", timedScenes |-> run[r].timedScenes,
     totalDuration |-> TotalDuration(run[r].transcript.audio_duration)]

\* Lines 300-316 and createSimplifiedSlideshow (622-723): rejects without
\* starting ffmpeg when there is no image, else resolves or rejects with ffmpeg.
GenEnhanced(r) ==
    /\ pc[r] = "enhanced"
    /\ LET args == EnhancedArgs(r)
       IN  \E outcome \in (IF args.imagePaths = <<>> THEN {"reject"}
                           ELSE {"ok", "fail"}) :
             IF outcome = "ok"
             THEN /\ run' = [run EXCEPT ![r].enhancedCall = <<args>>,
                                ![r].slideshowSuccess = TRUE,
                                ![r].files = @ \cup {"slideshow"},
                                ![r].log = Log(r, "enhanced:ok")]
                  /\ Goto(r, "lipsync")
             ELSE /\ run' = [run EXCEPT ![r].enhancedCall = <<args>>,
                                ![r].log = Log(r, "enhanced:" \o outcome)]
                  /\ Goto(r, "basic")
    /\ UNCHANGED <<project, user, invocations, alignVars, graphVars,
                   pollVars, procVars, mergeVars>>

\* Lines 317-331 and createBasicSlideshow (726-814).  The concat list file is
\* written before ffmpeg starts and unlinked in the close handler only.
GenBasic(r) ==
    /\ pc[r] = "basic"
    /\ LET args == BasicArgs(r)
       IN  \E outcome \in (IF args.imagePaths = <<>> THEN {"reject"}
                           ELSE {"ok", "fail", "error"}) :
             /\ run' = [run EXCEPT
                   ![r].basicCall = <<args>>,
                   ![r].slideshowSuccess = (outcome = "ok"),
                   ![r].files = (@ \cup (IF outcome = "ok" THEN {"slideshow"} ELSE {}))
                                   \cup (IF outcome = "error" THEN {"concat_list"} ELSE {}),
                   ![r].log = Log(r, "basic:" \o outcome)]
             /\ Goto(r, "lipsync")
    /\ UNCHANGED <<project, user, invocations, alignVars, graphVars,
                   pollVars, procVars, mergeVars>>

\* Faulty variant of OnLipsyncNull: the null check is missing and the run goes on.
OnLipsyncNull_Continue(r) ==
    /\ run' = [run EXCEPT ![r].log = Append(@, "lipsync:fail")]
    /\ Goto(r, "downloadLipsync")
    /\ UNCHANGED project

\* Lines 347-349: generateLipSyncVideo returned null.
OnLipsyncNull(r) == Throw(r, "lipsync:fail")

\* Lines 334-349 and generateLipSyncVideo (582-619): the avatar video of the
\* user is looked up, then the lip-sync service is called; an exception in the
\* call, or a response without a video URL, comes back as null.
GenLipsync(r) ==
    /\ pc[r] = "lipsync"
    /\ IF ~user.videoUrl
       THEN Throw(r, "findUser:novideo")
       ELSE \/ /\ run' = [run EXCEPT ![r].lipsyncUrl = RunTag[run[r].inv],
                                     ![r].log = Log(r, "lipsync:ok")]
               /\ Goto(r, "downloadLipsync")
               /\ UNCHANGED project
            \/ OnLipsyncNull(r)
    /\ UNCHANGED <<user, invocations, alignVars, graphVars,
                   pollVars, procVars, mergeVars>>

\* Faulty variant of AfterLipsyncDownload: the slideshowSuccess guard is missing.
AfterLipsyncDownload_Unguarded(slideshowSuccess) == "uploadSlideshow"

\* Lines 356-369: the slideshow upload and the merge are guarded by
\* slideshowSuccess.
AfterLipsyncDownload(slideshowSuccess) ==
    IF slideshowSuccess THEN "uploadSlideshow" ELSE "finalUpdate"

\* Lines 351-354: download of the lip-synced clip.
GenDownloadLipsync(r) ==
    /\ pc[r] = "downloadLipsync"
    /\ \/ /\ run' = [run EXCEPT
                ![r].lipsyncPath = "lipsync",
                ![r].tempFiles = @ \o <<"lipsync">>,
                ![r].files = @ \cup {"lipsync"},
                ![r].log = Log(r, "downloadLipsync:ok")]
          /\ Goto(r, AfterLipsyncDownload(run[r].slideshowSuccess))
          /\ UNCHANGED project
       \/ Throw(r, "downloadLipsync:fail")
    /\ UNCHANGED <<user, invocations, alignVars, graphVars,
                   pollVars, procVars, mergeVars>>

\* Faulty variant of GenUploadSlideshow: a failed upload leaves slideshowUrl
\* null and the run goes on to the merge.
GenUploadSlideshow_FailureIgnored(r) ==
    /\ pc[r] = "uploadSlideshow"
    /\ \E url \in {RunTag[run[r].inv], NULL} :
         run' = [run EXCEPT
                ![r].slideshowUrl = url,
                ![r].tempFiles = @ \o <<"splitscreen">>,
                ![r].log = Log(r, IF url = NULL THEN "uploadSlideshow:fail"
                                  ELSE "uploadSlideshow:ok")]
    /\ Goto(r, "splitPrimary")
    /\ UNCHANGED <<project, user, invocations, alignVars, graphVars,
                   pollVars, procVars, mergeVars>>

\* Lines 356-373: slideshow upload; the split-screen output path is tracked.
GenUploadSlideshow(r) ==
    /\ pc[r] = "uploadSlideshow"
    /\ \/ /\ run' = [run EXCEPT
                ![r].slideshowUrl = RunTag[run[r].inv],
                ![r].tempFiles = @ \o <<"splitscreen">>,
                ![r].log = Log(r, "uploadSlideshow:ok")]
          /\ Goto(r, "splitPrimary")
          /\ UNCHANGED project
       \/ Throw(r, "uploadSlideshow:fail")
    /\ UNCHANGED <<user, invocations, alignVars, graphVars,
                   pollVars, procVars, mergeVars>>

\* createSplitScreenVideo (817-879): the primary filter graph.  Exit code 0
\* resolves, a nonzero exit code starts the stacking fallback, an 'error'
\* event rejects.
GenSplitPrimary(r) ==
    /\ pc[r] = "splitPrimary"
    /\ \E outcome \in {"ok", "fail", "error"} :
         /\ run' = [run EXCEPT
               ![r].files = @ \cup (IF outcome = "ok" THEN {"splitscreen"} ELSE {}),
               ![r].log = Log(r, "splitPrimary:" \o outcome)]
         /\ Goto(r, CASE outcome = "ok" -> "uploadFinal"
                      [] outcome = "fail" -> "splitFallback"
                      [] outcome = "error" -> "finalUpdate")
    /\ UNCHANGED <<project, user, invocations, alignVars, graphVars,
                   pollVars, procVars, mergeVars>>

\* createSplitScreenVideo (880-913): the stacking fallback.  A rejection is
\* caught at lines 387-390 and leaves splitScreenUrl null.
GenSplitFallback(r) ==
    /\ pc[r] = "splitFallback"
    /\ \E outcome \in {"ok", "fail"} :
         /\ run' = [run EXCEPT
               ![r].files = @ \cup (IF outcome = "ok" THEN {"splitscreen"} ELSE {}),
               ![r].log = Log(r, "splitFallback:" \o outcome)]
         /\ Goto(r, IF outcome = "ok" THEN "uploadFinal" ELSE "finalUpdate")
    /\ UNCHANGED <<project, user, invocations, alignVars, graphVars,
                   pollVars, procVars, mergeVars>>

\* Lines 381-390: upload of the merged video, inside the inner try.
GenUploadFinal(r) ==
    /\ pc[r] = "uploadFinal"
    /\ \E outcome \in {"ok", "fail"} :
         run' = [run EXCEPT
               ![r].splitScreenUrl = IF outcome = "ok" THEN RunTag[run[r].inv] ELSE NULL,
               ![r].log = Log(r, "uploadFinal:" \o outcome)]
    /\ Goto(r, "finalUpdate")
    /\ UNCHANGED <<project, user, invocations, alignVars, graphVars,
                   pollVars, procVars, mergeVars>>

\* Lines 393-410: the data of the final update.  slideshowUrl and
\* finalVideoUrl are part of it only when they are set.
UpdateData(r) ==
    [fields |-> {"outputUrl", "transcript", "timedScenes", "audioDuration", "status"}
                  \cup (IF run[r].slideshowUrl # NULL THEN {"slideshowUrl"} ELSE {})
                  \cup (IF run[r].splitScreenUrl # NULL THEN {"finalVideoUrl"} ELSE {}),
     outputUrl |-> run[r].lipsyncUrl,
     transcript |-> run[r].transcript,
     timedScenes |-> run[r].timedScenes,
     audioDuration |-> run[r].transcript.audio_duration,
     status |-> "COMPLETED",
     slideshowUrl |-> run[r].slideshowUrl,
     finalVideoUrl |-> run[r].splitScreenUrl]

\* Faulty variant of ApplyUpdate: the status is written by itself.
ApplyUpdate_StatusOnly(row, data) == [row EXCEPT !.status = data.status]

\* prisma.project.update({data}): only the fields of data are written.  The
\* columns transcript, timedScenes and audioDuration are written but read by
\* no route modelled here; they are kept in updateData only.
ApplyUpdate(row, data) ==
    [row EXCEPT
        !.status = data.status,
        !.outputUrl = data.outputUrl,
        !.slideshowUrl = IF "slideshowUrl" \in data.fields THEN data.slideshowUrl ELSE @,
        !.finalVideoUrl = IF "finalVideoUrl" \in data.fields THEN data.finalVideoUrl ELSE @]

\* Lines 393-428: final update, cleanup, response.  An update that fails
\* throws into the outer catch.
GenFinalUpdate(r) ==
    /\ pc[r] = "finalUpdate"
    /\ \/ /\ project' = ApplyUpdate(project, UpdateData(r))
          /\ run' = [run EXCEPT
                ![r].updateData = <<UpdateData(r)>>,
                ![r].files = cleanupTempFiles(@, run[r].tempFiles),
                ![r].log = Log(r, "update:COMPLETED") \o <<"cleanup", "return:200">>,
                ![r].response = "200",
                ![r].atReturn = <<project'>>]
          /\ Goto(r, "done")
       \/ Throw(r, "update:fail")
    /\ UNCHANGED <<user, invocations, alignVars, graphVars,
                   pollVars, procVars, mergeVars>>

\* Line 439: the status written by the catch block.
CatchStatus == "FAILED"

\* Faulty variant of GenCatch: the catch block returns without the cleanup call.
GenCatch_NoCleanup(r) ==
    /\ pc[r] = "catch"
    /\ project' = [project EXCEPT !.status = CatchStatus]
    /\ run' = [run EXCEPT
          ![r].log = Log(r, "update:" \o CatchStatus) \o <<"return:500">>,
          ![r].response = "500",
          ![r].atReturn = <<project'>>]
    /\ Goto(r, "done")
    /\ UNCHANGED <<user, invocations, alignVars, graphVars,
                   pollVars, procVars, mergeVars>>

\* Lines 430-456: the outer catch: status update, cleanup, response 500.
GenCatch(r) ==
    /\ pc[r] = "catch"
    /\ project' = [project EXCEPT !.status = CatchStatus]
    /\ run' = [run EXCEPT
          ![r].files = cleanupTempFiles(@, run[r].tempFiles),
          ![r].log = Log(r, "update:" \o CatchStatus) \o <<"cleanup", "return:500">>,
          ![r].response = "500",
          ![r].atReturn = <<project'>>]
    /\ Goto(r, "done")
    /\ UNCHANGED <<user, invocations, alignVars, graphVars,
                   pollVars, procVars, mergeVars>>

Generate(r) ==
    \/ GenRequest(r) \/ GenFetch(r) \/ GenSetProcessing(r) \/ GenImages(r)
    \/ GenAudio(r) \/ GenTranscribe(r) \/ GenDownloadImages(r)
    \/ GenDownloadAudio(r) \/ GenEnhanced(r) \/ GenBasic(r) \/ GenLipsync(r)
    \/ GenDownloadLipsync(r) \/ GenUploadSlideshow(r) \/ GenSplitPrimary(r)
    \/ GenSplitFallback(r) \/ GenUploadFinal(r) \/ GenFinalUpdate(r)
    \/ GenCatch(r)

\* ======================================================================
\* POST /api/video  (lip-sync only)
\* ======================================================================
LipRun(inv, u, pid) == [FreshRun(inv, u, pid) EXCEPT !.route = "lipsync"]

\* Lines 9-35: session check, request body, the two URL checks.
LipRequest(r) ==
    /\ pc[r] \in {"idle", "done"}
    /\ invocations < MaxInvocations
    /\ invocations' = invocations + 1
    /\ \E u \in {"owner", "other", "none"}, pid \in {"p1", "p2", ""},
          urlsValid \in BOOLEAN :
         LET fresh == LipRun(invocations + 1, u, pid)
         IN  IF u = "none"
             THEN /\ run' = [run EXCEPT ![r] =
                        [fresh EXCEPT !.log = <<"return:401">>, !.response = "401",
                                      !.atReturn = <<project>>]]
                  /\ Goto(r, "done")
             ELSE IF ~urlsValid
             THEN /\ run' = [run EXCEPT ![r] =
                        [fresh EXCEPT !.log = <<"return:400">>, !.response = "400",
                                      !.atReturn = <<project>>]]
                  /\ Goto(r, "done")
             ELSE /\ run' = [run EXCEPT ![r] = fresh]
                  /\ Goto(r, IF pid # "" THEN "lipSetProcessing" ELSE "lipSubscribe")
    /\ UNCHANGED <<project, user, alignVars, graphVars,
                   pollVars, procVars, mergeVars>>

\* Lines 37-46: status := PROCESSING when a projectId was sent.  The update
\* is addressed by id alone; an id that matches no row makes it throw.
LipSetProcessing(r) ==
    /\ pc[r] = "lipSetProcessing"
    /\ IF run[r].projectId = "p1"
       THEN /\ project' = [project EXCEPT !.status = "PROCESSING"]
            /\ run' = [run EXCEPT ![r].log = Log(r, "lip:update:PROCESSING")]
            /\ Goto(r, "lipSubscribe")
       ELSE /\ run' = [run EXCEPT ![r].log = Log(r, "lip:update:notfound")]
            /\ Goto(r, "lipCatch")
            /\ UNCHANGED project
    /\ UNCHANGED <<user, invocations, alignVars, graphVars,
                   pollVars, procVars, mergeVars>>

\* Lines 57-79: the lip-sync call.  A response without a video URL returns
\* 500 at once; an exception goes to the catch block.
LipSubscribe(r) ==
    /\ pc[r] = "lipSubscribe"
    /\ \E outcome \in {"ok", "invalid", "throw"} :
         CASE outcome = "ok" ->
                /\ run' = [run EXCEPT ![r].lipsyncUrl = RunTag[run[r].inv],
                                      ![r].log = Log(r, "lip:subscribe:ok")]
                /\ Goto(r, "lipSave")
           [] outcome = "invalid" ->
                /\ run' = [run EXCEPT
                      ![r].log = Log(r, "lip:subscribe:invalid") \o <<"return:500">>,
                      ![r].response = "500",
                      ![r].atReturn = <<project>>]
                /\ Goto(r, "done")
           [] outcome = "throw" ->
                /\ run' = [run EXCEPT ![r].log = Log(r, "lip:subscribe:throw")]
                /\ Goto(r, "lipCatch")
    /\ UNCHANGED <<project, user, invocations, alignVars, graphVars,
                   pollVars, procVars, mergeVars>>

\* Lines 84-117: outputUrl and COMPLETED on the project addressed, or a new
\* project row (of the session's user) when no projectId was sent.
LipSave(r) ==
    /\ pc[r] = "lipSave"
    /\ IF run[r].projectId = "p1"
       THEN /\ project' = [project EXCEPT !.outputUrl = run[r].lipsyncUrl,
                                          !.status = "COMPLETED"]
            /\ run' = [run EXCEPT
                  ![r].log = Log(r, "lip:update:COMPLETED") \o <<"return:200">>,
                  ![r].response = "200",
                  ![r].atReturn = <<project'>>]
       ELSE /\ UNCHANGED project
            /\ run' = [run EXCEPT
                  ![r].log = Log(r, "lip:create") \o <<"return:200">>,
                  ![r].response = "200",
                  ![r].atReturn = <<project>>]
    /\ Goto(r, "done")
    /\ UNCHANGED <<user, invocations, alignVars, graphVars,
                   pollVars, procVars, mergeVars>>

\* Lines 119-143: the catch block reads the request body a second time.  The
\* body was consumed at line 17, so req.json() rejects, its catch handler
\* yields projectId null and the update to FAILED is skipped.
LipCatch(r) ==
    /\ pc[r] = "lipCatch"
    /\ run' = [run EXCEPT
          ![r].log = Log(r, "lip:rereadBody:fail") \o <<"return:500">>,
          ![r].response = "500",
          ![r].atReturn = <<project>>]
    /\ Goto(r, "done")
    /\ UNCHANGED <<project, user, invocations, alignVars, graphVars,
                   pollVars, procVars, mergeVars>>

LipSync(r) ==
    \/ LipRequest(r) \/ LipSetProcessing(r) \/ LipSubscribe(r)
    \/ LipSave(r) \/ LipCatch(r)

\* One request at a time: requests to the two routes follow one another.
Next == Generate(1) \/ LipSync(1)

Spec == Init /\ [][Next]_vars

\* ---- two generate requests at a time
\* Steps of the environment that end in a failure of an external call.
FaultEvents ==
    {"generateAudio:fail", "transcribe:fail", "downloadImages:fail",
     "downloadAudio:fail", "enhanced:fail", "enhanced:reject", "basic:fail",
     "basic:reject", "basic:error", "lipsync:fail", "findUser:novideo",
     "downloadLipsync:fail", "uploadSlideshow:fail", "splitPrimary:fail",
     "splitPrimary:error", "splitFallback:fail", "uploadFinal:fail",
     "update:fail"}

FaultsIn(l) == Cardinality({i \in DOMAIN l : l[i] \in FaultEvents})

Faults == FaultsIn(run[1].log) + FaultsIn(run[2].log)

\* Failures the environment may inject while two requests are in flight.
MaxFaults == 1

\* The handler is re-entrant: every slot may take the next step of its
\* request at any time.  Each step is one awaited call of the handler.
NextConc == \E r \in Slots : (Generate(r) /\ Faults' <= MaxFaults)

SpecConc == Init /\ [][NextConc]_vars

\* ======================================================================
\* Properties of the generate route (checked under Spec)
\* ======================================================================
Has(r, event) == \E i \in DOMAIN run[r].log : run[r].log[i] = event

HasAny(r, events) == \E i \in DOMAIN run[r].log : run[r].log[i] \in events

IsPrefix(a, b) == Len(a) <= Len(b) /\ a = SubSeq(b, 1, Len(a))

\* The part of the log of r after position i.
After(r, i) == SubSeq(run[r].log, i + 1, Len(run[r].log))

Returned(r) == pc[r] = "done" /\ run[r].atReturn # <<>>

EnhancedFailures == {"enhanced:fail", "enhanced:reject"}

BasicEvents == {"basic:ok", "basic:fail", "basic:reject", "basic:error"}

BasicFailures == BasicEvents \ {"basic:ok"}

LipsyncEvents == {"lipsync:ok", "lipsync:fail", "findUser:novideo"}

SlideshowUploadEvents == {"uploadSlideshow:ok", "uploadSlideshow:fail"}

MergeEvents == {"splitPrimary:ok", "splitPrimary:fail", "splitPrimary:error",
                "splitFallback:ok", "splitFallback:fail",
                "uploadFinal:ok", "uploadFinal:fail"}

C7_MergeFailureLeavesFinalVideoNull ==
    \A r \in Slots :
        (/\ Returned(r) /\ run[r].slideshowSuccess /\ Has(r, "lipsync:ok")
         /\ Has(r, "splitFallback:fail") /\ ~Has(r, "update:fail"))
        => /\ run[r].atReturn[1].status = "COMPLETED"
           /\ run[r].atReturn[1].finalVideoUrl = NULL
           /\ run[r].atReturn[1].slideshowUrl # NULL
           /\ run[r].atReturn[1].outputUrl # NULL

\* C8: whenever the enhanced tier fails, the next step of the run is the basic
\* tier, called with the same image paths, audio path, output path, timed
\* scenes and total duration; the basic tier is not attempted when the
\* enhanced tier succeeded.
C8_BasicTierFollowsEnhancedFailure ==
    \A r \in Slots :
        /\ \A i \in DOMAIN run[r].log :
              run[r].log[i] \in EnhancedFailures =>
                 \/ i = Len(run[r].log) /\ pc[r] = "basic" /\ run[r].basicCall = <<>>
                 \/ /\ i < Len(run[r].log)
                    /\ run[r].log[i + 1] \in BasicEvents
                    /\ run[r].enhancedCall # <<>>
                    /\ run[r].basicCall = run[r].enhancedCall
        /\ Has(r, "enhanced:ok") =>
              ~HasAny(r, BasicEvents) /\ run[r].basicCall = <<>>
        /\ HasAny(r, BasicEvents) => HasAny(r, EnhancedFailures)

\* C8 witness: ffmpeg failed in the enhanced tier and the basic tier then
\* built the slideshow.
C8_Witness ==
    \E i \in DOMAIN run[1].log :
        /\ run[1].log[i] = "enhanced:fail"
        /\ i < Len(run[1].log) /\ run[1].log[i + 1] = "basic:ok"

\* C9: when both slideshow tiers fail the run goes on: its next step is the
\* lip-sync step, it never uploads a slideshow and never attempts the merge,
\* and when the lip-sync call and the download of its clip succeed and the
\* final update is stored it returns 200 with the project COMPLETED, the
\* update writing neither slideshowUrl nor finalVideoUrl.
C9_SlideshowFailureIsNotFatal ==
    \A r \in Slots : \A i \in DOMAIN run[r].log :
        run[r].log[i] \in BasicFailures =>
            /\ ~run[r].slideshowSuccess
            /\ ~HasAny(r, SlideshowUploadEvents \cup MergeEvents)
            /\ \/ i = Len(run[r].log) /\ pc[r] = "lipsync"
               \/ i < Len(run[r].log) /\ run[r].log[i + 1] \in LipsyncEvents
            /\ (/\ pc[r] = "done" /\ Has(r, "lipsync:ok")
                /\ Has(r, "downloadLipsync:ok") /\ ~Has(r, "update:fail"))
               => /\ run[r].response = "200"
                  /\ run[r].atReturn[1].status = "COMPLETED"
                  /\ run[r].updateData # <<>>
                  /\ run[r].updateData[1].fields
                        \cap {"slideshowUrl", "finalVideoUrl"} = {}

\* C9 witness: both tiers failed with images present and the run returned 200.
C9_Witness ==
    /\ pc[1] = "done" /\ Has(1, "enhanced:fail") /\ HasAny(1, BasicFailures)
    /\ run[1].response = "200"

\* C10: every invocation that set the status to PROCESSING has set it to
\* COMPLETED or FAILED when it returns its response.
C10_NoReturnInProcessing ==
    \A r \in Slots :
        (Returned(r) /\ Has(r, "update:PROCESSING"))
        => run[r].atReturn[1].status \in {"COMPLETED", "FAILED"}

IsGenerate(r) == run[r].route = "generate"

CountOf(r, event) == Cardinality({i \in DOMAIN run[r].log : run[r].log[i] = event})

\* Every step of the pipeline after the status was set to PROCESSING.
WorkEvents ==
    {"generateImages", "update:generatedImages", "generateAudio:ok",
     "generateAudio:fail", "transcribe:ok", "transcribe:fail",
     "downloadImages:ok", "downloadImages:fail", "downloadAudio:ok",
     "downloadAudio:fail", "enhanced:ok", "lipsync:ok", "lipsync:fail",
     "downloadLipsync:ok", "downloadLipsync:fail", "update:COMPLETED"}
      \cup EnhancedFailures \cup BasicEvents \cup SlideshowUploadEvents
      \cup MergeEvents

\* The project has no image prompts, or its owner has no avatar video.
MissingPrecondition(r) ==
    /\ run[r].project # <<>>
    /\ run[r].project[1].imagePrompts = <<>> \/ ~user.videoUrl

\* C11: a generate run whose project has no image prompts, or whose user has
\* no avatar video, returns with the project FAILED, having made no image
\* generation, speech synthesis, transcription, download or ffmpeg call and
\* having written no project field but status.
C11_MissingPreconditionFailsFast ==
    \A r \in Slots :
        (/\ IsGenerate(r) /\ Returned(r) /\ Has(r, "update:PROCESSING")
         /\ MissingPrecondition(r))
        => /\ run[r].atReturn[1].status = "FAILED"
           /\ ~HasAny(r, WorkEvents)
           /\ run[r].atReturn[1] = [run[r].project[1] EXCEPT !.status = "FAILED"]

C13_EveryScratchFileReleased ==
    \A r \in Slots : (IsGenerate(r) /\ Returned(r)) => run[r].files = {}

\* A run that has set the status to PROCESSING and has not returned.
InProgress(r) == IsGenerate(r) /\ Has(r, "update:PROCESSING") /\ pc[r] # "done"

\* C14: at most one generate run of the project is in progress at any time:
\* while one run is between its update to PROCESSING and its response, no
\* other invocation has written the project or started a pipeline step.
C14_NoReentryWhileProcessing ==
    \A r, s \in Slots : r # s => ~(InProgress(r) /\ InProgress(s))

StatusEdges ==
    {<<"DRAFT", "PROCESSING">>, <<"COMPLETED", "PROCESSING">>,
     <<"PROCESSING", "COMPLETED">>, <<"PROCESSING", "FAILED">>}

\* C15: every change of the project's status made by the generate and the
\* lip-sync route is one of Draft->Processing, Completed->Processing,
\* Processing->Completed, Processing->Failed.
C15_StatusFollowsEdges ==
    [][project'.status # project.status
          => <<project.status, project'.status>> \in StatusEdges]_vars

\* C16: a run whose image generation kept no result (every per-prompt call
\* failed) makes no speech-synthesis call and returns with the project FAILED.
C16_NoImageIsFatal ==
    \A r \in Slots :
        (IsGenerate(r) /\ Has(r, "generateImages") /\ run[r].generatedImages = <<>>)
        => /\ ~HasAny(r, {"generateAudio:ok", "generateAudio:fail"})
           /\ Returned(r) => run[r].atReturn[1].status = "FAILED"

\* C17: generatedImages[i] is the image generated from imagePrompts[i], and
\* the image URL attached to timed scene i is the one generated from that
\* scene's prompt, also when some of the per-prompt generations failed.
C17_ImagesIndexAligned ==
    \A r \in Slots :
        (IsGenerate(r) /\ run[r].project # <<>>) =>
            /\ \A i \in DOMAIN run[r].generatedImages :
                  run[r].generatedImages[i]
                      = ImageUrl(run[r].project[1].imagePrompts[i])
            /\ \A i \in DOMAIN run[r].timedScenes :
                  run[r].timedScenes[i].imageUrl # <<>> =>
                      run[r].timedScenes[i].imageUrl
                          = ImageUrl(run[r].timedScenes[i].imagePrompt)

\* C18: no step of a request whose authenticated user is not the owner of
\* the project changes the project, on either route.
C18_OnlyOwnerModifiesProject ==
    [][\A r \in Slots :
          (run'[r] # run[r] /\ project' # project)
              => run[r].user = project.userId]_vars

FatalTail == <<"update:FAILED", "cleanup", "return:500">>

\* Once the step logged at position i of run r has failed, the run performs
\* the catch block and nothing else, and stores no final update.
AbortsAt(r, i) ==
    /\ IsPrefix(After(r, i), FatalTail)
    /\ pc[r] \in {"catch", "done"}
    /\ run[r].updateData = <<>>
    /\ pc[r] = "done" => /\ After(r, i) = FatalTail
                         /\ run[r].atReturn[1].status = "FAILED"

DownloadFailures == {"downloadImages:fail", "downloadAudio:fail", "downloadLipsync:fail"}

C26_ImagesPersistedAndReused ==
    \A r \in Slots :
        IsGenerate(r) =>
            /\ \A i \in DOMAIN run[r].log :
                  run[r].log[i] = "generateImages" =>
                      /\ i < Len(run[r].log)
                      /\ run[r].log[i + 1] = "update:generatedImages"
                      /\ project.generatedImages = run[r].generatedImages
            /\ (run[r].project # <<>> /\ run[r].project[1].generatedImages # <<>>)
                  => /\ ~Has(r, "generateImages")
                     /\ Has(r, "update:PROCESSING")
                           => run[r].generatedImages
                                 = run[r].project[1].generatedImages

\* C26 witness: the first run generated images and failed later; the second
\* run of the project has reached speech synthesis without generating any.
C26_Witness ==
    /\ IsGenerate(1) /\ run[1].inv = 2 /\ run[1].project # <<>>
    /\ run[1].project[1].status = "FAILED"
    /\ run[1].project[1].generatedImages # <<>>
    /\ HasAny(1, {"generateAudio:ok", "generateAudio:fail"})

NextAlign == AlignStart \/ AlignLoop \/ AlignTail

SpecAlign == InitAlign /\ [][NextAlign]_vars

\* groupWordsIntoScenes is synchronous code: once called it keeps running.
SpecAlignFair == SpecAlign /\ WF_vars(NextAlign)

\* ======================================================================
\* Properties of groupWordsIntoScenes (checked under SpecAlign)
\* ======================================================================
AlignReturned == alignPc = "done"

NonEmptyInput == Len(words) > 0 /\ Len(imagePrompts) > 0

\* Scenes pushed by the word-snapped loop are scenes[1..currentSceneIndex];
\* the rest of the result is the evenly divided tail.
TailCount == Len(scenes) - currentSceneIndex

EndsOnWord(sc) == \E w \in 1..Len(words) : sc.end = words[w].end * Scale

RECURSIVE SumDurations(_)
SumDurations(ss) ==
    IF ss = <<>> THEN 0
    ELSE (Head(ss).end - Head(ss).start) + SumDurations(Tail(ss))

\* C1: for every non-empty word list and non-empty prompt list the aligner
\* returns exactly len(prompts) scenes, also when prompts outnumber words or
\* the last word ends at or after the total audio duration.
C1_SceneCountEqualsPromptCount ==
    (AlignReturned /\ NonEmptyInput) => Len(scenes) = Len(imagePrompts)

\* C2: words = [(hi,0,500),(there,500,1200)], prompts = [a,b],
\* audioDuration = 1.2 s yields exactly the two scenes [0,500] and [500,1200].
C2_ScenarioTwoScenes ==
    (/\ AlignReturned
     /\ words = <<WordTimestamp(0, 500), WordTimestamp(500, 1200)>>
     /\ imagePrompts = <<"a", "b">>
     /\ audioDuration = 12)
    => /\ Len(scenes) = 2
       /\ scenes[1].start = 0 /\ scenes[1].end = 500 * Scale
       /\ scenes[2].start = 500 * Scale /\ scenes[2].end = 1200 * Scale

\* C3: the returned scenes tile the narration: the first scene starts at
\* words[0].start, the final scene ends at the total audio duration (ms) and
\* the scene durations sum to the audio duration measured from words[0].start.
C3_ScenesTileNarration ==
    (AlignReturned /\ NonEmptyInput) =>
       /\ Len(scenes) > 0
       /\ scenes[1].start = words[1].start * Scale
       /\ scenes[Len(scenes)].end = TotalDuration(audioDuration) * Scale
       /\ SumDurations(scenes)
            = (TotalDuration(audioDuration) - words[1].start) * Scale

C5_AllButLastEndOnWord ==
    AlignReturned => \A i \in 1..(Len(scenes) - 1) : EndsOnWord(scenes[i])

\* C5 (amended): every scene except those of the evenly divided tail ends at
\* the end of some word of the input; this includes the last scene whenever
\* the result has no tail.
C5_WordSnappedEndOnWord ==
    \A i \in 1..Len(scenes) :
        (alignPc = "loop" \/ i <= currentSceneIndex) => EndsOnWord(scenes[i])

\* C5 witness: a returned result with a word-snapped scene followed by a tail
\* of at least two scenes, the first of which ends on no word.
C5_Witness ==
    /\ AlignReturned /\ currentSceneIndex >= 1 /\ TailCount >= 2
    /\ ~EndsOnWord(scenes[currentSceneIndex + 1])

\* The word (1-based) at whose end the word-snapped scene j ends, and the
\* first word of that scene: the one after the last word of scene j - 1.
LastWordOf(j) == CHOOSE w \in 1..Len(words) : words[w].end * Scale = scenes[j].end

FirstWordOf(j) == IF j = 1 THEN 1 ELSE LastWordOf(j - 1) + 1

\* s + totalDurationMs / promptCount for the scene j (x Scale).
TargetEndOf(j) ==
    scenes[j].start
      + TargetDurationPerScene(TotalDuration(audioDuration), Len(imagePrompts))

\* C28: every word-snapped scene starts at its first word k (the first word
\* of the input, or the word after the previous scene's last word) at time s
\* (the start of the first word, or the previous scene's end), holds word k
\* and every following word up to, and not including, the first one whose
\* start is not strictly less than s + totalDurationMs / promptCount, and ends
\* at the end of its last word; so it holds at least one whole word and no
\* word lies in two scenes.
C28_WordSnappedSceneContents ==
    \A j \in 1..currentSceneIndex :
        /\ EndsOnWord(scenes[j])
        /\ scenes[j].start = IF j = 1 THEN words[1].start * Scale
                             ELSE scenes[j - 1].end
        /\ FirstWordOf(j) <= LastWordOf(j)
        /\ \A w \in (FirstWordOf(j) + 1)..LastWordOf(j) :
              words[w].start * Scale < TargetEndOf(j)
        /\ LastWordOf(j) < Len(words)
              => words[LastWordOf(j) + 1].start * Scale >= TargetEndOf(j)

\* C28 witness: a returned result with a scene that holds two words or more
\* and stops before a word starting exactly at its target end.
C28_Witness ==
    /\ AlignReturned
    /\ \E j \in 1..currentSceneIndex :
          /\ LastWordOf(j) > FirstWordOf(j)
          /\ LastWordOf(j) < Len(words)
          /\ words[LastWordOf(j) + 1].start * Scale = TargetEndOf(j)

\* C29: when the words are exhausted after m < len(prompts) scenes, the rest
\* of the result is one scene per remaining prompt, each of length
\* (totalDurationMs - end of scene m) / (len(prompts) - m), contiguous from the
\* end of scene m, the last one ending at totalDurationMs.
C29_TailDividesRemainingTime ==
    (/\ AlignReturned /\ NonEmptyInput
     /\ currentWordIndex >= Len(words)
     /\ currentSceneIndex < Len(imagePrompts))
    => LET m == currentSceneIndex
           n == Len(imagePrompts)
           each == (TotalDuration(audioDuration) * Scale - scenes[m].end) \div (n - m)
       IN  /\ Len(scenes) = n
           /\ \A j \in (m + 1)..n :
                 /\ scenes[j].start = scenes[j - 1].end
                 /\ scenes[j].end - scenes[j].start = each
                 /\ scenes[j].imagePrompt = imagePrompts[j]
           /\ scenes[n].end = TotalDuration(audioDuration) * Scale

\* C19: called with an empty word list or an empty prompt list, the aligner
\* returns at once, its result is the empty sequence, and it throws nothing.
C19_EmptyInputGivesEmptyResult ==
    ~NonEmptyInput => /\ alignPc \in {"start", "done"}
                      /\ scenes = <<>>

\* C19 witness: the aligner has returned from a call with no word and
\* several prompts.
C19_Witness ==
    AlignReturned /\ Len(words) = 0 /\ Len(imagePrompts) >= 2

\* ======================================================================
\* Filter-graph builders
\*   createSimplifiedSlideshow (the enhanced tier of the generate route)
\*   createSlideshowVideo      (the Ken Burns slideshow of ffmpeg-utils)
\* A graph is the sequence of its filter chains, in the order in which they
\* are written to the filter_complex string; a label [x] is a tuple.
\* ======================================================================
InputLabel(i) == <<"in", i>>        \* [i:v]

ScaledLabel(i) == <<"v", i>>        \* [vi]

FadedLabel(i) == <<"f", i>>         \* [fi]

Chain(inputs, filter, output, arg) ==
    [inputs |-> inputs, filter |-> filter, output |-> output, arg |-> arg]

Max(a, b) == IF a >= b THEN a ELSE b

\* Math.ceil(x / d) for x >= 0, d > 0.
CeilDiv(x, d) == (x + d - 1) \div d

\* Faulty variant of DurationSec: the lower limit of one second is missing.
DurationSec_NoMinimum(scene) == CeilDiv(scene.end - scene.start, 1000 * Scale)

\* const durationSec = Math.max(1, Math.ceil((scene.end - scene.start) / 1000))
\* (scene times are held multiplied by Scale).
DurationSec(scene) == Max(1, CeilDiv(scene.end - scene.start, 1000 * Scale))

\* fade=...:d=0.5, in tenths of a second.
FadeLength == 5

\* st=${Math.max(0, durationSec - 0.5)}, in tenths of a second.
FadeOutStart(durationSec) == Max(0, durationSec * 10 - FadeLength)

\* The options of one segment: trim=duration, fade in, fade out (the fades
\* in tenths of a second).
SegmentOptions(durationSec) ==
    [duration |-> durationSec,
     fadeInStart |-> 0, fadeInLength |-> FadeLength,
     fadeOutStart |-> FadeOutStart(durationSec), fadeOutLength |-> FadeLength]

\* createSimplifiedSlideshow: the chain written for image i by the first loop.
ScaleChain(i) == Chain(<<InputLabel(i)>>, "scale,pad", ScaledLabel(i), 0)

\* createSimplifiedSlideshow: the chain written for scene i by the second loop.
SegmentChain(scene, i) ==
    Chain(<<ScaledLabel(i)>>, "trim,fade,fade", FadedLabel(i),
          SegmentOptions(DurationSec(scene)))

\* createSimplifiedSlideshow: segments.join('') concat=n=segments.length [outv].
SimplifiedConcatChain(segs) == Chain(segs, "concat", <<"outv">>, Len(segs))

\* Faulty variant of ZoomDirection: three directions only.
ZoomDirection_ThreeWay(i) == i % 3

\* createSlideshowVideo, line 181: const zoomDirection = i % 4.
ZoomDirection(i) == i % 4

\* createSlideshowVideo, lines 184-203: the x and y expressions the switch
\* chooses for a direction, with startZoom = 1 substituted as the template
\* strings do.
PanStart(zoomDirection) ==
    CASE zoomDirection = 0 -> [x |-> "(iw-iw*1)/2", y |-> "(ih-ih*1)/2"]
      [] zoomDirection = 1 -> [x |-> "0", y |-> "0"]
      [] zoomDirection = 2 -> [x |-> "(iw-iw*1)", y |-> "0"]
      [] zoomDirection = 3 -> [x |-> "(iw-iw*1)/2", y |-> "(ih-ih*1)"]
      [] OTHER -> [x |-> "0", y |-> "0"]

\* createSlideshowVideo: the chain of image i; arg is the x and y of its
\* zoompan filter.
KenBurnsChain(i) ==
    Chain(<<InputLabel(i)>>, "scale,pad,zoompan,trim,fade", ScaledLabel(i),
          PanStart(ZoomDirection(i)))

\* createSlideshowVideo: the whole graph, filterComplex followed by lastFilter.
KenBurnsGraph(paths) ==
    [k \in 1..Len(paths) |-> KenBurnsChain(k - 1)]
      \o <<Chain([k \in 1..Len(paths) |-> ScaledLabel(k - 1)],
                 "concat,format", <<"v">>, Len(paths))>>

\* ---- inputs
SceneLengths == {0, 300, 1200, 2500}    \* ms

MaxImages == 5          \* images given to createSlideshowVideo

AudioLengths == {3000}  \* totalDuration given to createBasicSlideshow (ms)

\* Lists of n contiguous timed scenes starting at from (ms).
RECURSIVE SceneListsFrom(_, _, _)
SceneListsFrom(n, from, k) ==
    IF n = 0 THEN {<<>>}
    ELSE UNION { { <<[start |-> from * Scale, end |-> (from + d) * Scale,
                      imagePrompt |-> PromptPool[k],
                      imageUrl |-> ImageUrl(PromptPool[k])]>> \o rest :
                     rest \in SceneListsFrom(n - 1, from + d, k + 1) } :
                 d \in SceneLengths }

InitGraph ==
    /\ words = <<>> /\ imagePrompts = <<>> /\ audioDuration = 0
    /\ scenes = <<>> /\ currentSceneStart = 0 /\ currentWordIndex = 0
    /\ currentSceneIndex = 0 /\ alignPc = "off"
    /\ project = [status |-> "DRAFT", userId |-> "owner",
                  imagePrompts |-> <<>>, generatedImages |-> <<>>,
                  slideshowUrl |-> "null", outputUrl |-> "null",
                  finalVideoUrl |-> "null"]
    /\ user = [videoUrl |-> FALSE, voice_id |-> FALSE]
    /\ pc = [r \in {1, 2} |-> "idle"]
    /\ run = [r \in {1, 2} |-> <<>>]
    /\ invocations = 0
    /\ builder \in {"simplified", "kenburns", "basic"}
    /\ imagePaths \in {SubSeq(ImageFiles, 1, n) :
                         n \in 0..(IF builder = "kenburns" THEN MaxImages
                                   ELSE MaxPrompts)}
    /\ IF builder = "simplified"
       THEN timedScenes \in UNION {SceneListsFrom(n, 0, 1) : n \in 0..MaxPrompts}
       ELSE IF builder = "basic"
       THEN timedScenes \in SceneListsFrom(Len(imagePaths), 0, 1)
       ELSE timedScenes = <<>>
    /\ IF builder = "basic"
       THEN totalDurationMs \in
               {IF timedScenes = <<>> THEN 0
                ELSE timedScenes[Len(timedScenes)].end \div Scale} \cup AudioLengths
       ELSE totalDurationMs = 0
    /\ fileContent = <<>>
    /\ filterComplex = <<>> /\ segments = <<>> /\ graphIndex = 0
    /\ graphPc = "start"
    /\ PollOff /\ ProcOff /\ MergeOff

\* ---- createSimplifiedSlideshow, lines 622-672
\* Lines 630-633: no image, no graph.
SimplifiedStart ==
    /\ builder = "simplified" /\ graphPc = "start"
    /\ graphPc' = IF Len(imagePaths) = 0 THEN "rejected" ELSE "scale"
    /\ UNCHANGED <<builder, imagePaths, timedScenes, filterComplex, segments,
                   graphIndex, totalDurationMs, fileContent, alignVars, genVars,
                   pollVars, procVars, mergeVars>>

\* Lines 651-654: one iteration of imagePaths.forEach.
SimplifiedScale ==
    /\ graphPc = "scale"
    /\ graphIndex < Len(imagePaths)
    /\ filterComplex' = Append(filterComplex, ScaleChain(graphIndex))
    /\ IF graphIndex + 1 < Len(imagePaths)
       THEN graphIndex' = graphIndex + 1 /\ graphPc' = graphPc
       ELSE graphIndex' = 0 /\ graphPc' = "segment"
    /\ UNCHANGED <<builder, imagePaths, timedScenes, segments, totalDurationMs, fileContent, alignVars, genVars,
                   pollVars, procVars, mergeVars>>

\* Lines 658-669: one iteration of timedScenes.forEach.
SimplifiedSegment ==
    /\ graphPc = "segment"
    /\ graphIndex < Len(timedScenes)
    /\ IF graphIndex < Len(imagePaths)
       THEN /\ filterComplex' = Append(filterComplex,
                   SegmentChain(timedScenes[graphIndex + 1], graphIndex))
            /\ segments' = Append(segments, FadedLabel(graphIndex))
       ELSE UNCHANGED <<filterComplex, segments>>
    /\ graphIndex' = graphIndex + 1
    /\ UNCHANGED <<builder, imagePaths, timedScenes, graphPc, totalDurationMs, fileContent, alignVars, genVars,
                   pollVars, procVars, mergeVars>>

\* Line 672: the concatenation of the segments.
SimplifiedConcat ==
    /\ graphPc = "segment"
    /\ graphIndex >= Len(timedScenes)
    /\ filterComplex' = Append(filterComplex, SimplifiedConcatChain(segments))
    /\ graphPc' = "done"
    /\ UNCHANGED <<builder, imagePaths, timedScenes, segments, graphIndex,
                   totalDurationMs, fileContent, alignVars, genVars,
                   pollVars, procVars, mergeVars>>

\* ---- createSlideshowVideo, ffmpeg-utils.ts lines 162-217
KenBurnsBuild ==
    /\ builder = "kenburns" /\ graphPc = "start"
    /\ IF Len(imagePaths) = 0
       THEN graphPc' = "rejected" /\ UNCHANGED filterComplex
       ELSE graphPc' = "done" /\ filterComplex' = KenBurnsGraph(imagePaths)
    /\ UNCHANGED <<builder, imagePaths, timedScenes, segments, graphIndex,
                   totalDurationMs, fileContent, alignVars, genVars,
                   pollVars, procVars, mergeVars>>

\* ---- createBasicSlideshow, lines 733-759
\* Line 756: duration 0.1, in ms.
LastEntryDuration == 100

\* Lines 750-753: the entry of one image; the duration is durationPerImageSec
\* = totalDuration / 1000 / imagePaths.length, held in units of 1/Scale ms.
ListEntry(imagePath, total, count) ==
    [file |-> imagePath, duration |-> (total * Scale) \div count]

\* Lines 749-756: the entries of all images, then the last image again.
ConcatList(paths, total) ==
    [k \in 1..Len(paths) |-> ListEntry(paths[k], total, Len(paths))]
      \o <<[file |-> paths[Len(paths)], duration |-> LastEntryDuration * Scale]>>

\* Lines 734-759: no image, no list; else the list is written.
BasicList ==
    /\ builder = "basic" /\ graphPc = "start"
    /\ IF Len(imagePaths) = 0
       THEN graphPc' = "rejected" /\ UNCHANGED fileContent
       ELSE graphPc' = "listed"
            /\ fileContent' = ConcatList(imagePaths, totalDurationMs)
    /\ UNCHANGED <<builder, imagePaths, timedScenes, filterComplex, segments,
                   graphIndex, totalDurationMs, alignVars, genVars,
                   pollVars, procVars, mergeVars>>

NextGraph ==
    \/ SimplifiedStart \/ SimplifiedScale \/ SimplifiedSegment
    \/ SimplifiedConcat \/ KenBurnsBuild \/ BasicList

SpecGraph == InitGraph /\ [][NextGraph]_vars

\* ======================================================================
\* Properties of the filter-graph builders (checked under SpecGraph)
\* ======================================================================
GraphBuilt == graphPc = "done"

ConcatChains ==
    {k \in DOMAIN filterComplex :
        filterComplex[k].filter \in {"concat", "concat,format"}}

ChainsWriting(label) ==
    {k \in DOMAIN filterComplex : filterComplex[k].output = label}

\* The input image (0-based) a labelled stream is made from; -1 when the
\* label is written by no chain or by more than one.
RECURSIVE ImageOf(_)
ImageOf(label) ==
    IF label[1] = "in" THEN label[2]
    ELSE IF Cardinality(ChainsWriting(label)) # 1 THEN -1
    ELSE ImageOf(filterComplex[CHOOSE k \in ChainsWriting(label) : TRUE].inputs[1])

\* C20: the graph built for N >= 1 images ends in its one concatenation,
\* which has one output label and is fed by exactly N labelled streams, the
\* i-th made from image i, whatever the length of the timed-scene list.
C20_OneStreamPerImageIntoOneConcat ==
    GraphBuilt =>
        /\ Cardinality(ConcatChains) = 1
        /\ LET concat == filterComplex[Len(filterComplex)]
           IN  /\ Len(filterComplex) \in ConcatChains
               /\ Len(concat.inputs) = Len(imagePaths)
               /\ concat.arg = Len(imagePaths)
               /\ \A k \in 1..Len(concat.inputs) :
                     ImageOf(concat.inputs[k]) = k - 1
               /\ ChainsWriting(concat.output) = {Len(filterComplex)}

SegmentChains ==
    {k \in DOMAIN filterComplex : filterComplex[k].filter = "trim,fade,fade"}

\* C30: in every segment of the enhanced-tier graph the fade-out starts no
\* earlier than the fade-in ends (0.5 s), whatever the duration of the scene,
\* scenes shorter than one second included.
C30_FadeOutAfterFadeIn ==
    \A k \in SegmentChains :
        LET o == filterComplex[k].arg
        IN  /\ o.fadeInStart + o.fadeInLength = FadeLength
            /\ o.fadeOutStart >= o.fadeInStart + o.fadeInLength

\* C30 witness: a built graph with the segment of a scene of 300 ms and the
\* segment of a scene of no length.
C30_Witness ==
    /\ GraphBuilt /\ Cardinality(SegmentChains) >= 2
    /\ timedScenes[1].end - timedScenes[1].start = 300 * Scale
    /\ timedScenes[2].end = timedScenes[2].start

\* ------------------------------------------------------------------------
\* getTranscriptWithTimestamps (transcription client), step by step, with
\* the remote transcription job it polls.
\* ------------------------------------------------------------------------
MaxPolls == 3           \* polls remembered in polled
PollInterval == 3       \* setTimeout(resolve, 3000), in seconds

\* Neither the aligner nor a request handler is running.
RoutesOff ==
    /\ words = <<>> /\ imagePrompts = <<>> /\ audioDuration = 0
    /\ scenes = <<>> /\ currentSceneStart = 0 /\ currentWordIndex = 0
    /\ currentSceneIndex = 0 /\ alignPc = "off"
    /\ project = [status |-> "DRAFT", userId |-> "owner",
                  imagePrompts |-> <<>>, generatedImages |-> <<>>,
                  slideshowUrl |-> "null", outputUrl |-> "null",
                  finalVideoUrl |-> "null"]
    /\ user = [videoUrl |-> FALSE, voice_id |-> FALSE]
    /\ pc = [r \in {1, 2} |-> "idle"]
    /\ run = [r \in {1, 2} |-> <<>>]
    /\ invocations = 0

InitPoll ==
    /\ RoutesOff /\ GraphOff /\ ProcOff /\ MergeOff
    /\ apiKey \in BOOLEAN
    /\ pollPc = "start"
    /\ job = [status |-> "none", transcript |-> <<>>]
    /\ polled = <<>> /\ result = <<>> /\ waited = 0

\* Lines 32-36: without the key nothing is submitted.
PollStart ==
    /\ pollPc = "start"
    /\ pollPc' = IF apiKey THEN "submit" ELSE "thrown"
    /\ UNCHANGED <<apiKey, job, polled, result, waited, alignVars, genVars,
                   graphVars, procVars, mergeVars>>

\* Lines 47-62: axios.post creates the remote job, or rejects and the catch
\* block (lines 94-100) throws.
PollSubmit ==
    /\ pollPc = "submit"
    /\ \/ \E t \in Transcripts :
            /\ job' = [status |-> "queued", transcript |-> t]
            /\ pollPc' = "poll"
       \/ /\ pollPc' = "thrown"
          /\ UNCHANGED job
    /\ UNCHANGED <<apiKey, polled, result, waited, alignVars, genVars,
                   graphVars, procVars, mergeVars>>

\* The polls remembered: the latest MaxPolls.
Remember(entry) ==
    IF Len(polled) < MaxPolls THEN Append(polled, entry)
    ELSE Append(Tail(polled), entry)

\* Faulty variant of PollOutcome: a job in error is polled again.
PollOutcome_ErrorIgnored(status) ==
    IF status = "completed" THEN "returned" ELSE "wait"

\* Lines 74-84: what the loop does with the status a poll reports.
PollOutcome(status) ==
    IF status = "completed" THEN "returned"
    ELSE IF status = "error" THEN "thrown"
    ELSE "wait"

\* Lines 66-92, one iteration: axios.get reports the status of the job (or
\* rejects: the catch block throws); completed breaks out of the loop and the
\* transcript is returned, error throws, any other status arms the timer.
PollStatus ==
    /\ pollPc = "poll"
    /\ \/ /\ polled' = Remember([status |-> job.status,
                                 first |-> (polled = <<>>), delay |-> waited])
          /\ pollPc' = PollOutcome(job.status)
          /\ result' = IF PollOutcome(job.status) = "returned"
                       THEN job.transcript ELSE result
       \/ /\ polled' = Remember([status |-> "requestFailed",
                                 first |-> (polled = <<>>), delay |-> waited])
          /\ pollPc' = "thrown"
          /\ UNCHANGED result
    /\ waited' = 0
    /\ UNCHANGED <<apiKey, job, alignVars, genVars, graphVars, procVars, mergeVars>>

\* Line 83: the timer runs.
Tick ==
    /\ pollPc = "wait" /\ waited < PollInterval
    /\ waited' = waited + 1
    /\ UNCHANGED <<apiKey, pollPc, job, polled, result, alignVars, genVars,
                   graphVars, procVars, mergeVars>>

\* Line 83: the timer fires and the loop starts its next iteration.
TimerFires ==
    /\ pollPc = "wait" /\ waited = PollInterval
    /\ pollPc' = "poll"
    /\ UNCHANGED <<apiKey, job, polled, result, waited, alignVars, genVars,
                   graphVars, procVars, mergeVars>>

\* The remote service works on the job: queued, processing, then completed
\* or error; a finished job keeps its status.
JobAdvance ==
    /\ job.status \in {"queued", "processing"}
    /\ \E s \in {"processing", "completed", "error"} :
         /\ s = "processing" => job.status = "queued"
         /\ job' = [job EXCEPT !.status = s]
    /\ UNCHANGED <<apiKey, pollPc, polled, result, waited, alignVars, genVars,
                   graphVars, procVars, mergeVars>>

\* The steps of getTranscriptWithTimestamps itself.
PollStep == PollStart \/ PollSubmit \/ PollStatus \/ Tick \/ TimerFires

NextPoll == PollStep \/ JobAdvance

\* The event loop runs every continuation that is ready and every timer that
\* is due, and a request is answered or fails; the remote job is under no
\* obligation.
SpecPoll == InitPoll /\ [][NextPoll]_vars /\ WF_vars(PollStep)

\* ---- claims about getTranscriptWithTimestamps
JobTerminal == job.status \in {"completed", "error"}

PollFinished == pollPc \in {"returned", "thrown"}

LastPoll == polled[Len(polled)]

C25_PollingSafety ==
    /\ \A i \in 1..Len(polled) :
         /\ polled[i].status \in {"completed", "error", "requestFailed"}
               => i = Len(polled)
         /\ ~polled[i].first => polled[i].delay = PollInterval
    /\ polled # <<>> =>
         /\ LastPoll.status \in {"queued", "processing"}
               => pollPc \in {"wait", "poll"}
         /\ LastPoll.status = "completed"
               => pollPc = "returned" /\ result = job.transcript
         /\ LastPoll.status = "error" => pollPc = "thrown"
    /\ pollPc = "returned" => polled # <<>> /\ LastPoll.status = "completed"

\* C25: while a poll reports a status other than completed and error the
\* loop polls again exactly PollInterval later; the first poll that reports
\* completed returns the transcript of the job and the first poll that
\* reports error throws; and once the remote job is completed or in error,
\* getTranscriptWithTimestamps eventually returns or throws.
C25_PollsUntilTerminalThenFinishes ==
    /\ []C25_PollingSafety
    /\ (JobTerminal ~> PollFinished)

\* C25 witness: the transcript is returned by a poll that followed a poll
\* of the job while it was queued and a wait of PollInterval.
C25_Witness ==
    /\ pollPc = "returned" /\ Len(polled) >= 2
    /\ polled[1].status = "queued" /\ polled[1].first
    /\ LastPoll.delay = PollInterval

\* ------------------------------------------------------------------------
\* The media processes of one generate run: the three functions that spawn
\* ffmpeg (createSimplifiedSlideshow, createBasicSlideshow,
\* createSplitScreenVideo), the listeners they register on each ChildProcess,
\* and the handler's awaits between them (lines 296-391).
\* ------------------------------------------------------------------------
Children == {"simplified", "basic", "split", "simpleFfmpeg"}

Promises == {"createSimplifiedSlideshow", "createBasicSlideshow",
             "createSplitScreenVideo"}

\* A ChildProcess: state is "unstarted", "spawnFailed" (no process exists
\* and 'error' is due), "errored" ('error' was emitted), "alive", "exited"
\* (the process has ended and 'close' is due) or "closed" ('close' was
\* emitted); code is the exit code, or ENOENT after a failed spawn.
Unstarted == [state |-> "unstarted", code |-> "none"]

\* spawn('ffmpeg', args): a process runs, or none could be started.
SpawnOutcomes ==
    {[state |-> "alive", code |-> "none"],
     [state |-> "spawnFailed", code |-> "ENOENT"]}

\* resolve(...) and reject(...): a promise settles once.
Settle(p, outcome) ==
    IF promise[p] = "pending" THEN [promise EXCEPT ![p] = outcome]
    ELSE promise

\* Faulty variant of Await: the handler goes on without the promise.
Await_NotAwaited(p) == TRUE

\* await: the handler goes on when the promise has settled.
Await(p) == promise[p] # "pending"

\* The server process has not died of an uncaught exception.
Running == procPc # "crashed"

InitProc ==
    /\ RoutesOff /\ GraphOff /\ PollOff /\ MergeOff
    /\ procPc = "enhanced"
    /\ child = [c \in Children |-> Unstarted]
    /\ promise = [p \in Promises |-> "none"]
    /\ slideshowSuccessFlag = FALSE

\* Lines 304 and 622-722: the promise rejects at once (no image, line 631,
\* or the catch block of line 718), or ffmpeg is spawned (line 693).
CallSimplifiedSlideshow ==
    /\ procPc = "enhanced"
    /\ \/ /\ promise' = [promise EXCEPT
                            !["createSimplifiedSlideshow"] = "rejected"]
          /\ UNCHANGED child
       \/ /\ promise' = [promise EXCEPT
                            !["createSimplifiedSlideshow"] = "pending"]
          /\ \E o \in SpawnOutcomes :
                child' = [child EXCEPT !["simplified"] = o]
    /\ procPc' = "awaitEnhanced"
    /\ UNCHANGED <<slideshowSuccessFlag, alignVars, genVars, graphVars,
                   pollVars, mergeVars>>

\* Lines 302-315: after the await, success or the fallback.
AfterSimplifiedSlideshow ==
    /\ procPc = "awaitEnhanced" /\ Await("createSimplifiedSlideshow")
    /\ IF promise["createSimplifiedSlideshow"] = "rejected"
       THEN procPc' = "basic" /\ UNCHANGED slideshowSuccessFlag
       ELSE procPc' = "lipsync" /\ slideshowSuccessFlag' = TRUE
    /\ UNCHANGED <<child, promise, alignVars, genVars, graphVars, pollVars, mergeVars>>

\* Lines 703-706.
OnSimplifiedError ==
    /\ Running /\ child["simplified"].state = "spawnFailed"
    /\ child' = [child EXCEPT !["simplified"].state = "errored"]
    /\ promise' = Settle("createSimplifiedSlideshow", "rejected")
    /\ UNCHANGED <<procPc, slideshowSuccessFlag, alignVars, genVars,
                   graphVars, pollVars, mergeVars>>

\* Lines 708-717; after a failed spawn 'close' may follow 'error', with the
\* error number as code.
OnSimplifiedClose ==
    /\ Running /\ child["simplified"].state \in {"exited", "errored"}
    /\ child' = [child EXCEPT !["simplified"].state = "closed"]
    /\ promise' = Settle("createSimplifiedSlideshow",
                         IF child["simplified"].code = "0"
                         THEN "resolved" ELSE "rejected")
    /\ UNCHANGED <<procPc, slideshowSuccessFlag, alignVars, genVars,
                   graphVars, pollVars, mergeVars>>

\* Lines 319 and 725-813.
CallBasicSlideshow ==
    /\ procPc = "basic"
    /\ \/ /\ promise' = [promise EXCEPT
                            !["createBasicSlideshow"] = "rejected"]
          /\ UNCHANGED child
       \/ /\ promise' = [promise EXCEPT
                            !["createBasicSlideshow"] = "pending"]
          /\ \E o \in SpawnOutcomes :
                child' = [child EXCEPT !["basic"] = o]
    /\ procPc' = "awaitBasic"
    /\ UNCHANGED <<slideshowSuccessFlag, alignVars, genVars, graphVars,
                   pollVars, mergeVars>>

\* Lines 317-332: after the await; a second failure is only logged.
AfterBasicSlideshow ==
    /\ procPc = "awaitBasic" /\ Await("createBasicSlideshow")
    /\ slideshowSuccessFlag' = (promise["createBasicSlideshow"] # "rejected")
    /\ procPc' = "lipsync"
    /\ UNCHANGED <<child, promise, alignVars, genVars, graphVars, pollVars, mergeVars>>

\* Lines 787-790.
OnBasicError ==
    /\ Running /\ child["basic"].state = "spawnFailed"
    /\ child' = [child EXCEPT !["basic"].state = "errored"]
    /\ promise' = Settle("createBasicSlideshow", "rejected")
    /\ UNCHANGED <<procPc, slideshowSuccessFlag, alignVars, genVars,
                   graphVars, pollVars, mergeVars>>

\* Lines 792-808.
OnBasicClose ==
    /\ Running /\ child["basic"].state \in {"exited", "errored"}
    /\ child' = [child EXCEPT !["basic"].state = "closed"]
    /\ promise' = Settle("createBasicSlideshow",
                         IF child["basic"].code = "0"
                         THEN "resolved" ELSE "rejected")
    /\ UNCHANGED <<procPc, slideshowSuccessFlag, alignVars, genVars,
                   graphVars, pollVars, mergeVars>>

\* Lines 334-369: the lip-sync stage and the slideshow upload throw (the
\* handler answers 500), or the handler goes on, to the merge if there is a
\* slideshow.
BetweenSlideshowAndMerge ==
    /\ procPc = "lipsync"
    /\ \/ procPc' = "responded"
       \/ procPc' = IF slideshowSuccessFlag THEN "merge" ELSE "finish"
    /\ UNCHANGED <<child, promise, slideshowSuccessFlag, alignVars, genVars,
                   graphVars, pollVars, mergeVars>>

\* Lines 375 and 822-857: an input file is missing (lines 825-830, catch
\* block of line 915), or the primary merge is spawned (line 857).
CallSplitScreenVideo ==
    /\ procPc = "merge"
    /\ \/ /\ promise' = [promise EXCEPT
                            !["createSplitScreenVideo"] = "rejected"]
          /\ UNCHANGED child
       \/ /\ promise' = [promise EXCEPT
                            !["createSplitScreenVideo"] = "pending"]
          /\ \E o \in SpawnOutcomes :
                child' = [child EXCEPT !["split"] = o]
    /\ procPc' = "awaitMerge"
    /\ UNCHANGED <<slideshowSuccessFlag, alignVars, genVars, graphVars,
                   pollVars, mergeVars>>

\* Lines 370-391: after the await; a failed merge is only logged.
AfterSplitScreenVideo ==
    /\ procPc = "awaitMerge" /\ Await("createSplitScreenVideo")
    /\ procPc' = "finish"
    /\ UNCHANGED <<child, promise, slideshowSuccessFlag, alignVars, genVars,
                   graphVars, pollVars, mergeVars>>

\* Lines 867-870.
OnSplitError ==
    /\ Running /\ child["split"].state = "spawnFailed"
    /\ child' = [child EXCEPT !["split"].state = "errored"]
    /\ promise' = Settle("createSplitScreenVideo", "rejected")
    /\ UNCHANGED <<procPc, slideshowSuccessFlag, alignVars, genVars,
                   graphVars, pollVars, mergeVars>>

\* Lines 872-914: code 0 resolves; any other code spawns simpleFfmpeg
\* (line 898).
OnSplitClose ==
    /\ Running /\ child["split"].state \in {"exited", "errored"}
    /\ IF child["split"].code = "0"
       THEN /\ child' = [child EXCEPT !["split"].state = "closed"]
            /\ promise' = Settle("createSplitScreenVideo", "resolved")
       ELSE /\ \E o \in SpawnOutcomes :
                  child' = [child EXCEPT !["split"].state = "closed",
                                         !["simpleFfmpeg"] = o]
            /\ UNCHANGED promise
    /\ UNCHANGED <<procPc, slideshowSuccessFlag, alignVars, genVars,
                   graphVars, pollVars, mergeVars>>

\* Lines 905-912.
OnSimpleClose ==
    /\ Running /\ child["simpleFfmpeg"].state \in {"exited", "errored"}
    /\ child' = [child EXCEPT !["simpleFfmpeg"].state = "closed"]
    /\ promise' = Settle("createSplitScreenVideo",
                         IF child["simpleFfmpeg"].code = "0"
                         THEN "resolved" ELSE "rejected")
    /\ UNCHANGED <<procPc, slideshowSuccessFlag, alignVars, genVars,
                   graphVars, pollVars, mergeVars>>

\* Lines 898-912: simpleFfmpeg has no 'error' listener, so the 'error' of a
\* failed spawn is an uncaught exception, which ends the server process.
OnSimpleErrorUncaught ==
    /\ Running /\ child["simpleFfmpeg"].state = "spawnFailed"
    /\ child' = [child EXCEPT !["simpleFfmpeg"].state = "errored"]
    /\ procPc' = "crashed"
    /\ UNCHANGED <<promise, slideshowSuccessFlag, alignVars, genVars,
                   graphVars, pollVars, mergeVars>>

\* Lines 393-457: final update, cleanup and response spawn nothing.
FinishRun ==
    /\ procPc = "finish"
    /\ procPc' = "responded"
    /\ UNCHANGED <<child, promise, slideshowSuccessFlag, alignVars, genVars,
                   graphVars, pollVars, mergeVars>>

\* An ffmpeg process ends, with code 0 or with another code.
ProcessExits ==
    /\ Running
    /\ \E c \in Children, code \in {"0", "1"} :
         /\ child[c].state = "alive"
         /\ child' = [child EXCEPT ![c] = [state |-> "exited", code |-> code]]
    /\ UNCHANGED <<procPc, promise, slideshowSuccessFlag, alignVars, genVars,
                   graphVars, pollVars, mergeVars>>

NextProc ==
    \/ CallSimplifiedSlideshow \/ AfterSimplifiedSlideshow
    \/ OnSimplifiedError \/ OnSimplifiedClose
    \/ CallBasicSlideshow \/ AfterBasicSlideshow
    \/ OnBasicError \/ OnBasicClose
    \/ BetweenSlideshowAndMerge
    \/ CallSplitScreenVideo \/ AfterSplitScreenVideo
    \/ OnSplitError \/ OnSplitClose
    \/ OnSimpleClose \/ OnSimpleErrorUncaught
    \/ FinishRun \/ ProcessExits

SpecProc == InitProc /\ [][NextProc]_vars

\* ---- claims about the media processes
Alive == {c \in Children : child[c].state = "alive"}

\* C21: at no time are two of the run's ffmpeg processes alive together,
\* the enhanced-to-basic slideshow fallback and the primary-to-last-resort
\* merge fallback included.
C21_AtMostOneProcessAlive ==
    procPc # "off" => Cardinality(Alive) <= 1

\* C21 witness: the last-resort merge process is alive after the enhanced
\* slideshow, the basic slideshow and the primary merge processes have run
\* and ended.
C21_Witness ==
    /\ procPc # "off"
    /\ child["simpleFfmpeg"].state = "alive"
    /\ \A c \in {"simplified", "basic", "split"} :
         child[c].state = "closed" /\ child[c].code \in {"0", "1"}

\* The process was tried and did not succeed.
ProcessFailed(c) == child[c].code \in {"1", "ENOENT"}

\* C22: createSplitScreenVideo starts the last-resort process only after the
\* primary merge process has ended with a nonzero code, is resolved once
\* either process has ended with code 0, and is rejected only when both
\* processes have failed.
C22_FallbackThenRejectOnlyAfterBoth ==
    procPc # "off" =>
      /\ child["simpleFfmpeg"].state # "unstarted" =>
            child["split"].state = "closed" /\ child["split"].code # "0"
      /\ \A c \in {"split", "simpleFfmpeg"} :
            (child[c].state = "closed" /\ child[c].code = "0")
               => promise["createSplitScreenVideo"] = "resolved"
      /\ promise["createSplitScreenVideo"] = "rejected" =>
            ProcessFailed("split") /\ ProcessFailed("simpleFfmpeg")

\* ---- more claims about the filter-graph builders (under SpecGraph)
\* The scene (1-based) a segment chain was written for.
SceneOf(k) == filterComplex[k].output[2] + 1

RECURSIVE SumOver(_, _)
SumOver(f, S) ==
    IF S = {} THEN 0
    ELSE LET k == CHOOSE x \in S : TRUE IN f[k] + SumOver(f, S \ {k})

\* C31: every segment of the enhanced-tier graph is trimmed to exactly the
\* duration of its timed scene (end - start), so the segments together last
\* the sum of the durations of their scenes.
C31_SegmentTrimmedToSceneDuration ==
    /\ \A k \in SegmentChains :
          filterComplex[k].arg.duration * 1000 * Scale
             = timedScenes[SceneOf(k)].end - timedScenes[SceneOf(k)].start
    /\ GraphBuilt =>
          SumOver([k \in SegmentChains |->
                      filterComplex[k].arg.duration * 1000 * Scale],
                  SegmentChains)
             = SumOver([k \in SegmentChains |->
                      timedScenes[SceneOf(k)].end
                         - timedScenes[SceneOf(k)].start],
                  SegmentChains)

\* The direction whose x and y a zoompan chain carries.
DirectionOf(pan) == CHOOSE d \in 0..3 : PanStart(d) = pan

\* C33: in the Ken Burns graph the chain of image i pans in direction
\* i mod 4; with five images the directions are 0, 1, 2, 3, 0 in image order.
C33_PanDirectionCycles ==
    (GraphBuilt /\ builder = "kenburns") =>
        /\ \A i \in 0..(Len(imagePaths) - 1) :
              /\ filterComplex[i + 1].inputs = <<InputLabel(i)>>
              /\ DirectionOf(filterComplex[i + 1].arg) = i % 4
        /\ Len(imagePaths) = 5 =>
              [i \in 1..5 |-> DirectionOf(filterComplex[i].arg)]
                 = <<0, 1, 2, 3, 0>>

\* C33 witness: the Ken Burns graph of five images.
C33_Witness ==
    GraphBuilt /\ builder = "kenburns" /\ Len(imagePaths) = 5

\* ---- more claims about the two routes (under Spec)
\* C35: a project whose status is COMPLETED has an outputUrl: both routes
\* write COMPLETED and the lip-sync video URL in one update.
C35_CompletedHasOutputUrl ==
    project.status = "COMPLETED" => project.outputUrl # NULL

\* C35 witness: the project was completed by a generate run and again by a
\* run of the lip-sync route.
C35_Witness ==
    /\ project.status = "COMPLETED" /\ invocations = 2
    /\ run[1].route = "lipsync" /\ Has(1, "lip:update:COMPLETED")
    /\ project.slideshowUrl # NULL

\* C36: a run of the lip-sync route that set the project to PROCESSING and
\* then failed (the lip-sync call threw, or its response carried no video
\* URL) has set the status to FAILED when it answers; the project is not
\* left PROCESSING.
C36_LipSyncFailureSetsFailed ==
    (/\ Returned(1) /\ run[1].route = "lipsync"
     /\ Has(1, "lip:update:PROCESSING")
     /\ HasAny(1, {"lip:subscribe:throw", "lip:subscribe:invalid"}))
        => /\ run[1].atReturn[1].status = "FAILED"
           /\ project.status # "PROCESSING"

\* C39: when the final update of a generate run carries finalVideoUrl it
\* carries slideshowUrl and outputUrl too, all three made by that run, whose
\* slideshow was built and uploaded.
C39_FinalVideoComesWithItsSources ==
    \A r \in Slots :
        (/\ IsGenerate(r) /\ run[r].updateData # <<>>
         /\ "finalVideoUrl" \in run[r].updateData[1].fields)
           => LET data == run[r].updateData[1]
              IN  /\ {"slideshowUrl", "outputUrl"} \subseteq data.fields
                  /\ data.finalVideoUrl = RunTag[run[r].inv]
                  /\ data.slideshowUrl = RunTag[run[r].inv]
                  /\ data.outputUrl = RunTag[run[r].inv]
                  /\ HasAny(r, {"enhanced:ok", "basic:ok"})
                  /\ Has(r, "uploadSlideshow:ok")
                  /\ project.finalVideoUrl = data.finalVideoUrl
                       => /\ project.slideshowUrl = data.slideshowUrl
                          /\ project.outputUrl \in {data.outputUrl,
                                                    RunTag[invocations]}

\* C39 witness: a second generate run wrote a finalVideoUrl made by the
\* last-resort merge of a basic-tier slideshow.
C39_Witness ==
    /\ Returned(1) /\ IsGenerate(1) /\ run[1].inv = 2
    /\ run[1].updateData # <<>>
    /\ "finalVideoUrl" \in run[1].updateData[1].fields
    /\ Has(1, "basic:ok") /\ Has(1, "splitFallback:ok")
    /\ project.finalVideoUrl = RunTag[2]

\* ---- more claims about the media processes (under SpecProc)
MergeSettled == promise["createSplitScreenVideo"] \in {"resolved", "rejected"}

\* C38: once the promise of createSplitScreenVideo is resolved or rejected no
\* further ffmpeg process is started, also when 'close' with a nonzero code
\* follows the 'error' of the primary process; and no failure event of a
\* process it started goes unhandled.
C38_OutcomeDecidedOnce ==
    [][/\ (MergeSettled /\ child["simpleFfmpeg"].state = "unstarted")
             => child'["simpleFfmpeg"].state = "unstarted"
       /\ procPc' # "crashed"]_vars

\* ---- termination of groupWordsIntoScenes (under SpecAlignFair)
\* An iteration of the outer loop has run.
LoopIteration == alignPc = "loop" /\ alignPc' = "loop"

C40_CursorsInRange ==
    /\ currentWordIndex <= Len(words)
    /\ currentSceneIndex <= Len(imagePrompts)
    /\ \A i \in 1..Len(scenes) :
          i <= Len(imagePrompts) /\ scenes[i].imagePrompt = imagePrompts[i]

\* C40: every iteration of the outer loop strictly increases the word cursor
\* and the scene index; the word cursor never passes the end of the word
\* list; scene i carries prompt i, each prompt at most once; and
\* groupWordsIntoScenes returns for every input.
C40_AlignerTerminates ==
    /\ [][LoopIteration =>
             /\ currentWordIndex' > currentWordIndex
             /\ currentSceneIndex' = currentSceneIndex + 1]_vars
    /\ []C40_CursorsInRange
    /\ <>AlignReturned

\* C40 witness: the function has returned after three iterations of the
\* outer loop, with prompts left for the tail.
C40_Witness ==
    /\ AlignReturned /\ currentSceneIndex = 3 /\ currentWordIndex = Len(words)
    /\ Len(scenes) > currentSceneIndex

\* ---- the concat list of createBasicSlideshow (under SpecGraph)
ListWritten == builder = "basic" /\ graphPc = "listed"

\* C32: the concat list written for N images has N entries, one per image in
\* order, followed by one entry that repeats the last image for 0.1 s; and
\* the durations of the first N entries are the durations of the timed
\* scenes passed with the images.
C32_ConcatListFollowsScenes ==
    ListWritten =>
        LET N == Len(imagePaths)
        IN  /\ Len(fileContent) = N + 1
            /\ \A i \in 1..N : fileContent[i].file = imagePaths[i]
            /\ fileContent[N + 1] =
                  [file |-> imagePaths[N], duration |-> 100 * Scale]
            /\ \A i \in 1..N :
                  /\ i <= Len(timedScenes)
                  /\ fileContent[i].duration
                        = timedScenes[i].end - timedScenes[i].start

\* ------------------------------------------------------------------------
\* POST /api/video/merge (src/app/api/broll/video/merge/route.ts) and
\* mergePortraitVideo (src/app/lib/ffmpeg-utils.ts, lines 397-618) with its
\* three child processes.
\* ------------------------------------------------------------------------
MergeChildren == {"ffprobe", "ffmpeg", "lastResort"}

StreamFields == {"width", "height", "duration"}

\* What ffprobe may have written to stdout when it ends: valid says that
\* JSON.parse accepts it, hasStream that probe.streams[0] is an object, fields
\* which entries that object has.
ProbeOutputs ==
    {[valid |-> FALSE, hasStream |-> FALSE, fields |-> {}],
     [valid |-> TRUE, hasStream |-> FALSE, fields |-> {}]}
      \cup {[valid |-> TRUE, hasStream |-> TRUE, fields |-> f] :
               f \in {StreamFields, {"width", "height"}, {}}}

\* Lines 426-431: JSON.parse throws, or probe.streams[0] is undefined and
\* reading its duration throws.  parseFloat and parseInt of a missing entry
\* give NaN and do not throw.
ProbeThrows(out) == ~out.valid \/ ~out.hasStream

InitMerge ==
    /\ words = <<>> /\ imagePrompts = <<>> /\ audioDuration = 0
    /\ scenes = <<>> /\ currentSceneStart = 0 /\ currentWordIndex = 0
    /\ currentSceneIndex = 0 /\ alignPc = "off"
    /\ \E o \in {NULL, "personUrl"}, b \in {NULL, "brollUrl"} :
         project = [status |-> "COMPLETED", userId |-> "owner",
                    imagePrompts |-> <<>>, generatedImages |-> <<>>,
                    slideshowUrl |-> NULL, outputUrl |-> o,
                    finalVideoUrl |-> NULL, brollVideoUrl |-> b]
    /\ user = [videoUrl |-> FALSE, voice_id |-> FALSE]
    /\ pc = [r \in {1, 2} |-> "idle"]
    /\ run = [r \in {1, 2} |-> <<>>]
    /\ invocations = 0
    /\ GraphOff /\ PollOff /\ ProcOff
    /\ mergePc = "request"
    /\ \E u \in {"owner", "other", "none"}, pid \in {"p1", "p2", ""},
          body \in BOOLEAN :
         mergeRun = [user |-> u, projectId |-> pid, bodyParses |-> body,
                     files |-> {}, tempFiles |-> <<>>, response |-> NULL]
    /\ mergeChild = [c \in MergeChildren |-> Unstarted]
    /\ probeData = <<>>
    /\ mergePromise = "none"

\* return NextResponse.json(..., {status: code}).
MergeRespond(code, files) ==
    /\ mergeRun' = [mergeRun EXCEPT !.response = code, !.files = files]
    /\ mergePc' = "responded"

\* Lines 17-78: session, body and project checks.  A body that does not
\* parse throws into the outer catch block (lines 189-199).
MergeRequest ==
    /\ mergePc = "request"
    /\ LET code == CASE mergeRun.user = "none" -> "401"
                     [] ~mergeRun.bodyParses -> "500"
                     [] mergeRun.projectId = "" -> "400"
                     [] mergeRun.projectId # "p1" -> "404"
                     [] project.userId # mergeRun.user -> "403"
                     [] project.outputUrl = NULL -> "400"
                     [] project.brollVideoUrl = NULL -> "400"
                     [] OTHER -> NULL
       IN IF code = NULL
          THEN mergePc' = "downloadPerson" /\ UNCHANGED mergeRun
          ELSE MergeRespond(code, cleanupTempFiles(mergeRun.files,
                                                   mergeRun.tempFiles))
    /\ UNCHANGED <<mergeChild, probeData, mergePromise, alignVars, genVars,
                   graphVars, pollVars, procVars>>

\* Lines 90-97: the person video is downloaded and tracked, or the handler
\* answers 500.
MergeDownloadPerson ==
    /\ mergePc = "downloadPerson"
    /\ \/ /\ mergeRun' = [mergeRun EXCEPT !.files = @ \cup {"person"},
                                          !.tempFiles = Append(@, "person")]
          /\ mergePc' = "downloadBroll"
       \/ MergeRespond("500", mergeRun.files)
    /\ UNCHANGED <<mergeChild, probeData, mergePromise, alignVars, genVars,
                   graphVars, pollVars, procVars>>

\* Lines 99-106: the b-roll video is downloaded and tracked, or the handler
\* answers 500; its catch block returns without a cleanupTempFiles call, so
\* the files on disk stay as they are.
MergeDownloadBroll ==
    /\ mergePc = "downloadBroll"
    /\ \/ /\ mergeRun' = [mergeRun EXCEPT !.files = @ \cup {"broll"},
                                          !.tempFiles = Append(@, "broll")]
          /\ mergePc' = "merge"
       \/ MergeRespond("500", mergeRun.files)
    /\ UNCHANGED <<mergeChild, probeData, mergePromise, alignVars, genVars,
                   graphVars, pollVars, procVars>>

\* Lines 108-115 of the route and 404-419 of mergePortraitVideo: the output
\* path is tracked and ffprobe is spawned.
MergeCallPortrait ==
    /\ mergePc = "merge"
    /\ mergeRun' = [mergeRun EXCEPT !.tempFiles = Append(@, "output")]
    /\ mergePromise' = "pending"
    /\ \E o \in SpawnOutcomes :
         mergeChild' = [mergeChild EXCEPT !["ffprobe"] = o]
    /\ mergePc' = "awaitMerge"
    /\ UNCHANGED <<probeData, alignVars, genVars, graphVars, pollVars,
                   procVars>>

MergeRunning == mergePc # "crashed"

\* ffprobe ends, having written something to stdout (lines 417-419).
ProbeExits ==
    /\ MergeRunning /\ mergeChild["ffprobe"].state = "alive"
    /\ \E code \in {"0", "1"}, out \in ProbeOutputs :
         /\ mergeChild' = [mergeChild EXCEPT
                              !["ffprobe"] = [state |-> "exited", code |-> code]]
         /\ probeData' = out
    /\ UNCHANGED <<mergePc, mergeRun, mergePromise, alignVars, genVars,
                   graphVars, pollVars, procVars>>

\* ffmpeg or lastResort ends; with code 0 the output file is written.
MergeProcessExits ==
    /\ MergeRunning
    /\ \E c \in {"ffmpeg", "lastResort"}, code \in {"0", "1"} :
         /\ mergeChild[c].state = "alive"
         /\ mergeChild' = [mergeChild EXCEPT
                              ![c] = [state |-> "exited", code |-> code]]
         /\ mergeRun' = [mergeRun EXCEPT
               !.files = IF code = "0" THEN @ \cup {"output"} ELSE @]
    /\ UNCHANGED <<mergePc, probeData, mergePromise, alignVars, genVars,
                   graphVars, pollVars, procVars>>

\* Lines 414-421 and 595-603: ffprobe and lastResort have no 'error'
\* listener, so the 'error' of a failed spawn is an uncaught exception.
OnMergeErrorUncaught ==
    /\ MergeRunning
    /\ \E c \in {"ffprobe", "lastResort"} :
         /\ mergeChild[c].state = "spawnFailed"
         /\ mergeChild' = [mergeChild EXCEPT ![c].state = "errored"]
    /\ mergePc' = "crashed"
    /\ UNCHANGED <<mergeRun, probeData, mergePromise, alignVars, genVars,
                   graphVars, pollVars, procVars>>

\* resolve(...) and reject(...) of mergePortraitVideo: the promise settles
\* once.
MergeSettle(outcome) ==
    mergePromise' = IF mergePromise = "pending" THEN outcome ELSE mergePromise

\* Lines 421-535 and 613-616, the 'close' listener of ffprobe: a nonzero
\* code rejects; an output that makes the parsing throw rejects; otherwise
\* ffmpeg is spawned.
OnProbeClose ==
    /\ MergeRunning /\ mergeChild["ffprobe"].state = "exited"
    /\ IF mergeChild["ffprobe"].code # "0" \/ ProbeThrows(probeData)
       THEN /\ mergeChild' = [mergeChild EXCEPT !["ffprobe"].state = "closed"]
            /\ MergeSettle("rejected")
       ELSE /\ \E o \in SpawnOutcomes :
                  mergeChild' = [mergeChild EXCEPT
                                    !["ffprobe"].state = "closed",
                                    !["ffmpeg"] = o]
            /\ UNCHANGED mergePromise
    /\ UNCHANGED <<mergePc, mergeRun, probeData, alignVars, genVars,
                   graphVars, pollVars, procVars>>

\* Lines 548-551.
OnPortraitError ==
    /\ MergeRunning /\ mergeChild["ffmpeg"].state = "spawnFailed"
    /\ mergeChild' = [mergeChild EXCEPT !["ffmpeg"].state = "errored"]
    /\ MergeSettle("rejected")
    /\ UNCHANGED <<mergePc, mergeRun, probeData, alignVars, genVars,
                   graphVars, pollVars, procVars>>

\* Lines 553-612: code 0 resolves; any other code spawns lastResort.
OnPortraitClose ==
    /\ MergeRunning /\ mergeChild["ffmpeg"].state \in {"exited", "errored"}
    /\ IF mergeChild["ffmpeg"].code = "0"
       THEN /\ mergeChild' = [mergeChild EXCEPT !["ffmpeg"].state = "closed"]
            /\ MergeSettle("resolved")
       ELSE /\ \E o \in SpawnOutcomes :
                  mergeChild' = [mergeChild EXCEPT
                                    !["ffmpeg"].state = "closed",
                                    !["lastResort"] = o]
            /\ UNCHANGED mergePromise
    /\ UNCHANGED <<mergePc, mergeRun, probeData, alignVars, genVars,
                   graphVars, pollVars, procVars>>

\* Lines 603-610.
OnLastResortClose ==
    /\ MergeRunning /\ mergeChild["lastResort"].state = "exited"
    /\ mergeChild' = [mergeChild EXCEPT !["lastResort"].state = "closed"]
    /\ MergeSettle(IF mergeChild["lastResort"].code = "0"
                   THEN "resolved" ELSE "rejected")
    /\ UNCHANGED <<mergePc, mergeRun, probeData, alignVars, genVars,
                   graphVars, pollVars, procVars>>

\* Lines 114-130: after the await; a rejection is answered with 500 after a
\* cleanup.
AfterMergePortrait ==
    /\ mergePc = "awaitMerge" /\ mergePromise \in {"resolved", "rejected"}
    /\ IF mergePromise = "rejected"
       THEN MergeRespond("500",
                cleanupTempFiles(mergeRun.files, mergeRun.tempFiles))
       ELSE mergePc' = "upload" /\ UNCHANGED mergeRun
    /\ UNCHANGED <<mergeChild, probeData, mergePromise, alignVars, genVars,
                   graphVars, pollVars, procVars>>

\* Lines 132-149: upload of the merged video; a failure is answered with 500
\* after a cleanup.
MergeUpload ==
    /\ mergePc = "upload"
    /\ \/ mergePc' = "update" /\ UNCHANGED mergeRun
       \/ MergeRespond("500",
              cleanupTempFiles(mergeRun.files, mergeRun.tempFiles))
    /\ UNCHANGED <<mergeChild, probeData, mergePromise, alignVars, genVars,
                   graphVars, pollVars, procVars>>

\* Lines 151-187: the project update (a failure is only logged), the
\* cleanup, the response.
MergeUpdate ==
    /\ mergePc = "update"
    /\ \/ project' = [project EXCEPT !.finalVideoUrl = "mergedUrl"]
       \/ UNCHANGED project
    /\ MergeRespond("200",
           cleanupTempFiles(mergeRun.files, mergeRun.tempFiles))
    /\ UNCHANGED <<user, pc, run, invocations, mergeChild, probeData,
                   mergePromise, alignVars, graphVars, pollVars, procVars>>

NextMerge ==
    \/ MergeRequest \/ MergeDownloadPerson \/ MergeDownloadBroll
    \/ MergeCallPortrait \/ ProbeExits \/ MergeProcessExits
    \/ OnMergeErrorUncaught \/ OnProbeClose \/ OnPortraitError
    \/ OnPortraitClose \/ OnLastResortClose \/ AfterMergePortrait
    \/ MergeUpload \/ MergeUpdate

SpecMerge == InitMerge /\ [][NextMerge]_vars

\* ---- claims about the merge route and mergePortraitVideo
\* The output is the stream description asked for with
\* -show_entries stream=width,height,duration -of json.
ExpectedDescription(out) ==
    out.valid /\ out.hasStream /\ StreamFields \subseteq out.fields

\* C34: when ffprobe has ended with a nonzero code, or with an output that
\* is not the expected JSON stream description, mergePortraitVideo rejects
\* and starts no ffmpeg process.
C34_ProbeFailureRejectsWithoutFfmpeg ==
    (/\ mergePc # "off" /\ mergeChild["ffprobe"].state = "closed"
     /\ \/ mergeChild["ffprobe"].code # "0"
        \/ ~ExpectedDescription(probeData))
        => /\ mergePromise = "rejected"
           /\ mergeChild["ffmpeg"].state = "unstarted"
           /\ mergeChild["lastResort"].state = "unstarted"

\* C37: when the merge route has answered, no file it tracked is left on
\* disk; in particular not the person video after a failed b-roll download.
C37_TrackedFilesDeletedOnEveryExit ==
    (mergePc = "responded")
        => Range(mergeRun.tempFiles) \cap mergeRun.files = {}

====
